---------------------------- MODULE Spec2Model ----------------------------
(***************************************************************************)
(* Room state coordinator of the collaborative code editor server         *)
(* (src/server.js, lines 1-339: the socket.io server with the throttled   *)
(* code-update handler and the debounced saveData).                       *)
(*                                                                         *)
(* The server keeps module-level tables keyed by room id (rooms, hosts,   *)
(* typingUsers, roomCode, chatHistory, commitHistory), a table keyed by   *)
(* socket id (socketRooms) and, per connection, the closure variable      *)
(* lastCodeUpdate.  Every socket.io event handler is one action.          *)
(***************************************************************************)
EXTENDS Integers, Sequences, FiniteSets, TLC

(***************************************************************************)
(* Input alphabets and bounds of the model.                                *)
(***************************************************************************)
Sockets   == {"s1", "s2", "s3"}
RoomIds   == {"r1", "r2"}
Languages == {"js", "py"}
Codes     == {"X", "Y"}

\* Date.now() when the process starts: any instant later than one week
\* after the epoch, as every real clock reading is.
StartTime == 700000000
\* bounds on the lengths of the logs and on the number of edits explored
MaxChat == 1
MaxCommits == 2
MaxEdits == 2
MaxInbox == 2
\* bound on the number of typing and stop-typing events explored
MaxSignals == 3
\* bound on the number of chat messages sent to one room
MaxPosts == 150
\* bound on the number of writes of data.json that throw
MaxFailures == 1
\* bound on the number of handlers suspended at an await
MaxPending == 2

\* program constants
SAVE_DELAY == 2000
ThrottleMs == 100
ChatLimit == 100
CommitLimit == 50
DuplicateWindow == 300000
ONE_WEEK == 604800000
SweepInterval == 3600000
TypingExpiry == 2000

\* JavaScript's null (hosts[roomId] of a room whose host left last)
Null == "<null>"
\* fields of an event record that the event does not carry
NA == "-"
\* the commit id of an event that names none
NoHash == <<0, NA>>

VARIABLES
  now,            \* Date.now()
  connected,      \* sockets whose "connection" event has fired
  subs,           \* socket.io room subscriptions: socket -> set of room ids
  socketRooms,    \* Map socket.id -> {roomId, username}
  rooms,          \* roomId -> array of usernames
  hosts,          \* roomId -> username or null
  typingUsers,    \* roomId -> Set of usernames
  roomCode,       \* roomId -> (language -> code)
  chatHistory,    \* roomId -> array of {username, message, timestamp}
  commitHistory,  \* roomId -> array of commit entries
  lastCodeUpdate, \* per connection: key -> time of the last accepted update
  saveTimeout,    \* deadlines of the pending saveData timer: empty or one instant
  nextSweep,      \* instant at which the hourly cleanup interval is next due
  out,            \* the emits of the handler that ran last, in order
  last,           \* the event that handler handled
  tracked,        \* connections whose client-side buffer is followed
  inbox,          \* tracked connection -> code-bearing events in flight to it
  view,           \* tracked connection -> (language -> code the editor shows)
  edits,          \* tracked connection -> number of code-updates it sent
  accepted,       \* (roomId, language) -> time and content of the last update taken
  typingTimeouts, \* per connection: key -> instant at which the pending expiry timer fires
  typed,          \* (roomId, username) -> time of the latest typing event, number of signals
  sharedCode,     \* shareId -> {code, createdAt}
  disk,           \* data.json: absent, written with the tables it holds, or cut short
  failed,         \* number of writes of data.json that have thrown
  awaiting,       \* handlers suspended at "await saveData()", each with the text it writes
  codeUpdateTimers, \* roomId -> the pending debounce timer: its instant and its closure
  redis,          \* the store: roomId of key "room:<roomId>" -> the record set last
  reading,        \* join-room handlers suspended at "await redis.get", each with its reply
  redisThrottle   \* lodash throttle around redis.set: end of the window, arguments kept

vars == <<now, connected, subs, socketRooms, rooms, hosts, typingUsers, roomCode,
          chatHistory, commitHistory, lastCodeUpdate, saveTimeout, nextSweep,
          out, last, tracked, inbox, view, edits, accepted, typingTimeouts, typed,
          sharedCode, disk, failed, awaiting, codeUpdateTimers, redis, reading,
          redisThrottle>>

serverTables == <<rooms, hosts, typingUsers, roomCode, chatHistory, commitHistory>>
clientSide == <<inbox, view, edits>>
typingSide == <<typingTimeouts, typed>>
storeSide == <<sharedCode, disk, failed, awaiting>>
variantSide == <<codeUpdateTimers, redis, reading, redisThrottle>>

(***************************************************************************)
(* JavaScript objects used as maps: functions whose domain is the set of  *)
(* keys that are present.                                                  *)
(***************************************************************************)
EmptyMap == [k \in {} |-> Null]
Has(m, k) == k \in DOMAIN m
Put(m, k, v) == [x \in (DOMAIN m) \cup {k} |-> IF x = k THEN v ELSE m[x]]
Del(m, k) == [x \in (DOMAIN m) \ {k} |-> m[x]]
Range(s) == {s[i] : i \in 1..Len(s)}

RECURSIVE Filter(_, _)
\* Array.prototype.filter((user) => user !== username)
Filter(s, username) ==
  IF s = <<>> THEN <<>>
  ELSE IF Head(s) = username THEN Filter(Tail(s), username)
       ELSE <<Head(s)>> \o Filter(Tail(s), username)

\* Array.prototype.slice(-n): the last n elements
SliceLast(s, n) ==
  IF Len(s) <= n THEN s ELSE SubSeq(s, Len(s) - n + 1, Len(s))

(***************************************************************************)
(* socket.io addressing.                                                   *)
(***************************************************************************)
\* io.to(roomId): every connected socket subscribed to the room
IoTo(sub, roomId) == {s \in connected : roomId \in sub[s]}
\* socket.emit: the socket itself
SocketEmitAll(sub, s) == {x \in connected : sub[x] # {}}
SocketEmit(sub, s) == {s}
\* socket.to(roomId): the room without the sending socket
SocketToAll(sub, s, roomId) == IoTo(sub, roomId)
SocketTo(sub, s, roomId) == IoTo(sub, roomId) \ {s}

Emit(to, ev, data) == [to |-> to, ev |-> ev, data |-> data]

\* events that carry editor content to a client
CodeEvents == {"sync-all-code", "code-update"}

RECURSIVE Enqueue(_, _)
\* the in-flight queues after the emits es: each tracked recipient of a
\* code-bearing event gets it appended (one ordered stream per connection)
Enqueue(box, es) ==
  IF es = <<>> THEN box
  ELSE LET e == Head(es)
           b == IF e.ev \in CodeEvents
                THEN [s \in DOMAIN box |->
                        IF s \in e.to
                        THEN Append(box[s], [ev |-> e.ev, data |-> e.data])
                        ELSE box[s]]
                ELSE box
       IN Enqueue(b, Tail(es))

(***************************************************************************)
(* data.json: the text JSON.stringify produces and what loadData makes of  *)
(* it.  A file is absent, written (with the tables its text holds) or cut  *)
(* short by a write that failed after the file was opened.                 *)
(***************************************************************************)
\* what loadData returns when the file is missing or cannot be parsed
Defaults ==
  [rooms |-> EmptyMap, hosts |-> EmptyMap, typingUsers |-> EmptyMap,
   roomCode |-> EmptyMap, commitHistory |-> EmptyMap, sharedCode |-> EmptyMap,
   chatHistory |-> EmptyMap]

NoFile == [state |-> "absent", data |-> Defaults]

\* JSON.stringify of a Set: "{}", an object without keys
SetAsJson(set) == EmptyMap

\* JSON.stringify({rooms, hosts, typingUsers, roomCode, commitHistory,
\* sharedCode, chatHistory}) of the tables given
FileTextNoChat(r, h, tu, rc, ch, sc, chat) ==
  [rooms |-> r, hosts |-> h, typingUsers |-> [x \in DOMAIN tu |-> SetAsJson(tu[x])],
   roomCode |-> rc, commitHistory |-> ch, sharedCode |-> sc, chatHistory |-> EmptyMap]
FileText(r, h, tu, rc, ch, sc, chat) ==
  [rooms |-> r, hosts |-> h, typingUsers |-> [x \in DOMAIN tu |-> SetAsJson(tu[x])],
   roomCode |-> rc, commitHistory |-> ch, sharedCode |-> sc, chatHistory |-> chat]

\* the text of the tables as they are now
Snapshot ==
  FileText(rooms, hosts, typingUsers, roomCode, commitHistory, sharedCode, chatHistory)

\* how a write of data.json ends: written, or thrown before the file was
\* opened (EACCES), or thrown after it was opened and emptied (ENOSPC)
WriteOutcomes == {"written", "EACCES", "ENOSPC"}

\* the file after a write of text that ends with outcome
DiskAfter(text, outcome) ==
  CASE outcome = "written" -> [state |-> "written", data |-> text]
    [] outcome = "EACCES" -> disk
    [] OTHER -> [state |-> "cut", data |-> Defaults]

\* loadData(): the parsed file, or the defaults when it is missing or unparsable
LoadData == IF disk.state = "written" THEN disk.data ELSE Defaults

\* typingUsers[roomId] = new Set(Object.values(typingUsers[roomId]))
TypingAfterLoad(tu) == [r \in DOMAIN tu |-> {tu[r][k] : k \in DOMAIN tu[r]}]

\* saveData(): clearTimeout(saveTimeout); saveTimeout = setTimeout(..., SAVE_DELAY)
SaveDataKeep == saveTimeout \cup {now + SAVE_DELAY}
SaveData == {now + SAVE_DELAY}

\* the record of a handled event; seq alternates so that two handlings of the
\* same event differ
Event(op, s, roomId, username, language, code, applied) ==
  [op |-> op, sock |-> s, roomId |-> roomId, username |-> username,
   language |-> language, code |-> code, applied |-> applied,
   message |-> NA, commitHash |-> NoHash, shareId |-> NA, seq |-> 1 - last.seq]

\* `${c.commitHash} - ${c.commitMessage}` for every entry: id and message only
CommitSummaries(log) ==
  [i \in 1..Len(log) |-> <<log[i].commitHash, log[i].commitMessage>>]

(***************************************************************************)
(* Initial state: no data.json, no connection.                             *)
(***************************************************************************)
InitServer ==
  /\ now = StartTime
  /\ connected = {}
  /\ subs = [s \in Sockets |-> {}]
  /\ socketRooms = EmptyMap
  /\ rooms = EmptyMap
  /\ hosts = EmptyMap
  /\ typingUsers = EmptyMap
  /\ roomCode = EmptyMap
  /\ chatHistory = EmptyMap
  /\ commitHistory = EmptyMap
  /\ lastCodeUpdate = [s \in Sockets |-> EmptyMap]
  /\ saveTimeout = {}
  /\ nextSweep = StartTime + SweepInterval
  /\ out = <<>>
  /\ last = [op |-> "start", sock |-> NA, roomId |-> NA, username |-> NA,
             language |-> NA, code |-> NA, applied |-> FALSE, message |-> NA,
             commitHash |-> NoHash, shareId |-> NA, seq |-> 0]
  /\ accepted = EmptyMap
  /\ typingTimeouts = [s \in Sockets |-> EmptyMap]
  /\ typed = EmptyMap
  /\ sharedCode = EmptyMap
  /\ disk = NoFile
  /\ failed = 0
  /\ awaiting = <<>>
  /\ codeUpdateTimers = EmptyMap
  /\ redis = EmptyMap
  /\ reading = <<>>
  /\ redisThrottle = [until |-> StartTime, args |-> Null]

InitClients(T) ==
  /\ tracked = T
  /\ inbox = [s \in T |-> <<>>]
  /\ view = [s \in T |-> EmptyMap]
  /\ edits = [s \in T |-> 0]

Init == InitServer /\ InitClients({})

(***************************************************************************)
(* io.on("connection"): a new socket; its closure variables are fresh.     *)
(* Timers outlive the connection that started them, so a socket name is   *)
(* given to a new connection only when no timer of its earlier bearer is  *)
(* pending.                                                                *)
(***************************************************************************)
Connect(s) ==
  /\ s \notin connected
  /\ typingTimeouts[s] = EmptyMap
  /\ connected' = connected \cup {s}
  /\ lastCodeUpdate' = [lastCodeUpdate EXCEPT ![s] = EmptyMap]
  /\ out' = <<>>
  /\ last' = Event("connection", s, NA, NA, NA, NA, FALSE)
  /\ inbox' = [x \in tracked |-> IF x = s THEN <<>> ELSE inbox[x]]
  /\ view' = [x \in tracked |-> IF x = s THEN EmptyMap ELSE view[x]]
  /\ edits' = [x \in tracked |-> IF x = s THEN 0 ELSE edits[x]]
  /\ UNCHANGED <<variantSide, storeSide, typingSide, now, subs, socketRooms, serverTables, saveTimeout, nextSweep,
                 tracked, accepted>>

(***************************************************************************)
(* socket.on("join-room")                                                  *)
(***************************************************************************)
\* if (!rooms[roomId].includes(username)) rooms[roomId].push(username)
AddMemberAlways(members, username) == Append(members, username)
AddMember(members, username) ==
  IF username \in Range(members) THEN members ELSE Append(members, username)

JoinRoom(s, roomId, username) ==
  LET fresh == ~Has(rooms, roomId)
      rooms1 == IF fresh THEN Put(rooms, roomId, <<>>) ELSE rooms
      hosts1 == IF fresh THEN Put(hosts, roomId, username) ELSE hosts
      code1 == IF fresh THEN Put(roomCode, roomId, EmptyMap) ELSE roomCode
      chat1 == IF fresh THEN Put(chatHistory, roomId, <<>>) ELSE chatHistory
      commits1 == IF fresh THEN Put(commitHistory, roomId, <<>>) ELSE commitHistory
      rooms2 == [rooms1 EXCEPT ![roomId] = AddMember(@, username)]
      subs1 == [subs EXCEPT ![s] = @ \cup {roomId}]
      emits == << Emit(SocketEmit(subs1, s), "sync-all-code", code1[roomId]),
                  Emit(SocketEmit(subs1, s), "chat-history", chat1[roomId]),
                  Emit(SocketEmit(subs1, s), "commit-history",
                       CommitSummaries(commits1[roomId])),
                  Emit(IoTo(subs1, roomId), "user-list", rooms2[roomId]),
                  Emit(IoTo(subs1, roomId), "server-owner", hosts1[roomId]) >>
  IN
  /\ s \in connected
  /\ s \in tracked => Len(inbox[s]) < MaxInbox
  /\ socketRooms' = Put(socketRooms, s, [roomId |-> roomId, username |-> username])
  /\ subs' = subs1
  /\ rooms' = rooms2
  /\ hosts' = hosts1
  /\ roomCode' = code1
  /\ chatHistory' = chat1
  /\ commitHistory' = commits1
  /\ saveTimeout' = SaveData
  /\ out' = emits
  /\ last' = Event("join-room", s, roomId, username, NA, NA, TRUE)
  /\ inbox' = Enqueue(inbox, emits)
  /\ UNCHANGED <<variantSide, storeSide, typingSide, now, connected, typingUsers, lastCodeUpdate, nextSweep, tracked,
                 view, edits, accepted>>

(***************************************************************************)
(* handleUserLeave(socketId, roomId, username), shared by leave-room and   *)
(* disconnect.                                                             *)
(***************************************************************************)
\* rooms[roomId] = rooms[roomId].filter((user) => user !== username)
RoomsAfterLeaveDropEmpty(tbl, roomId, username) ==
  IF Filter(tbl[roomId], username) = <<>> THEN Del(tbl, roomId)
  ELSE [tbl EXCEPT ![roomId] = Filter(@, username)]
RoomsAfterLeave(tbl, roomId, username) ==
  [tbl EXCEPT ![roomId] = Filter(@, username)]

\* hosts[roomId] after the leave; members is the member list after the filter
NextHostKeep(host, members, username) == host
NextHostLast(host, members, username) ==
  IF host = username
  THEN IF Len(members) > 0 THEN members[Len(members)] ELSE Null
  ELSE host
NextHost(host, members, username) ==
  IF host = username
  THEN IF Len(members) > 0 THEN members[1] ELSE Null
  ELSE host

\* the emits of handleUserLeave, sent to the sockets `to`
LeaveEmits(to, roomId, username) ==
  LET members == Filter(rooms[roomId], username)
      typing == IF Has(typingUsers, roomId)
                THEN << Emit(to, "user-typing", typingUsers[roomId] \ {username}) >>
                ELSE <<>>
      owner == IF hosts[roomId] = username
               THEN << Emit(to, "server-owner",
                            NextHost(hosts[roomId], members, username)) >>
               ELSE <<>>
  IN typing \o owner \o << Emit(to, "user-list", members) >>

\* the effect of handleUserLeave on the tables, the save timer and `out`
HandleUserLeave(sub, roomId, username) ==
  IF Has(rooms, roomId)
  THEN /\ rooms' = RoomsAfterLeave(rooms, roomId, username)
       /\ typingUsers' = IF Has(typingUsers, roomId)
                         THEN [typingUsers EXCEPT ![roomId] = @ \ {username}]
                         ELSE typingUsers
       /\ hosts' = [hosts EXCEPT ![roomId] =
                      NextHost(@, Filter(rooms[roomId], username), username)]
       /\ out' = LeaveEmits(IoTo(sub, roomId), roomId, username)
       /\ saveTimeout' = SaveData
  ELSE /\ out' = <<>>
       /\ UNCHANGED <<rooms, typingUsers, hosts, saveTimeout>>

\* socket.on("leave-room"): the payload names the room and the user
LeaveRoom(s, roomId, username) ==
  /\ s \in connected
  /\ HandleUserLeave(subs, roomId, username)
  /\ last' = Event("leave-room", s, roomId, username, NA, NA, Has(rooms, roomId))
  /\ UNCHANGED <<variantSide, storeSide, typingSide, now, connected, subs, socketRooms, roomCode, chatHistory,
                 commitHistory, lastCodeUpdate, nextSweep, tracked, clientSide,
                 accepted>>

\* socket.on("disconnect"): socket.io has already removed the socket from its
\* rooms; the user recorded by the socket's last join-room leaves that room
Disconnect(s) ==
  LET sub1 == [subs EXCEPT ![s] = {}]
      known == Has(socketRooms, s)
      info == socketRooms[s]
  IN
  /\ s \in connected
  /\ connected' = connected \ {s}
  /\ subs' = sub1
  /\ IF known
     THEN /\ HandleUserLeave(sub1, info.roomId, info.username)
          /\ socketRooms' = Del(socketRooms, s)
          /\ last' = Event("disconnect", s, info.roomId, info.username, NA, NA,
                           Has(rooms, info.roomId))
     ELSE /\ out' = <<>>
          /\ last' = Event("disconnect", s, NA, NA, NA, NA, FALSE)
          /\ UNCHANGED <<rooms, typingUsers, hosts, saveTimeout, socketRooms>>
  /\ inbox' = [x \in tracked |-> IF x = s THEN <<>> ELSE inbox[x]]
  /\ view' = [x \in tracked |-> IF x = s THEN EmptyMap ELSE view[x]]
  /\ edits' = [x \in tracked |-> IF x = s THEN 0 ELSE edits[x]]
  /\ UNCHANGED <<variantSide, storeSide, typingSide, now, roomCode, chatHistory, commitHistory, lastCodeUpdate,
                 nextSweep, tracked, accepted>>

(***************************************************************************)
(* socket.on("code-update"): throttled per connection.                     *)
(***************************************************************************)
\* const key = `${roomId}-${language}`
Key(roomId, language) == roomId \o "-" \o language

\* lastCodeUpdate[key] && (now - lastCodeUpdate[key] < 100)
Throttled(lcu, key, t) == Has(lcu, key) /\ lcu[key] # 0 /\ t - lcu[key] < ThrottleMs

\* if (!roomCode[roomId]) roomCode[roomId] = {}; roomCode[roomId][language] = code
StoreCodeFirstOnly(tbl, roomId, language, code) ==
  IF Has(tbl, roomId) /\ Has(tbl[roomId], language) THEN tbl
  ELSE Put(tbl, roomId, Put(IF Has(tbl, roomId) THEN tbl[roomId] ELSE EmptyMap,
                            language, code))
StoreCode(tbl, roomId, language, code) ==
  Put(tbl, roomId, Put(IF Has(tbl, roomId) THEN tbl[roomId] ELSE EmptyMap,
                       language, code))

RECURSIVE Sum(_, _)
Sum(f, S) == IF S = {} THEN 0 ELSE LET x == CHOOSE y \in S : TRUE
                                   IN f[x] + Sum(f, S \ {x})

\* a followed editor is edited by a member of the room, once the snapshot of
\* its join has been applied
ClientMayType(s, roomId) ==
  s \in tracked =>
    /\ roomId \in subs[s]
    /\ \A i \in 1..Len(inbox[s]) : inbox[s][i].ev # "sync-all-code"

\* the editor of the sending client shows what its user typed
ClientTyped(s, language, code) ==
  /\ view' = [x \in tracked |-> IF x = s THEN Put(view[x], language, code) ELSE view[x]]
  /\ edits' = [x \in tracked |-> IF x = s THEN edits[x] + 1 ELSE edits[x]]

CodeUpdate(s, roomId, code, language) ==
  LET key == Key(roomId, language)
      emits == << Emit(SocketTo(subs, s, roomId), "code-update",
                       [code |-> code, language |-> language]) >>
  IN
  /\ s \in connected
  /\ \A x \in tracked \cap SocketTo(subs, s, roomId) : Len(inbox[x]) < MaxInbox
  /\ Sum(edits, tracked) < MaxEdits
  /\ ClientMayType(s, roomId)
  /\ ClientTyped(s, language, code)
  /\ IF Throttled(lastCodeUpdate[s], key, now)
     THEN /\ out' = <<>>
          /\ last' = Event("code-update", s, roomId, NA, language, code, FALSE)
          /\ UNCHANGED <<lastCodeUpdate, roomCode, saveTimeout, inbox, accepted>>
     ELSE /\ lastCodeUpdate' = [lastCodeUpdate EXCEPT ![s] = Put(@, key, now)]
          /\ roomCode' = StoreCode(roomCode, roomId, language, code)
          /\ saveTimeout' = SaveData
          /\ out' = emits
          /\ last' = Event("code-update", s, roomId, NA, language, code, TRUE)
          /\ inbox' = Enqueue(inbox, emits)
          /\ accepted' = Put(accepted, <<roomId, language>>,
                             [time |-> now, code |-> code, sock |-> s])
  /\ UNCHANGED <<variantSide, storeSide, typingSide, now, connected, subs, socketRooms, rooms, hosts, typingUsers,
                 chatHistory, commitHistory, nextSweep, tracked>>

(***************************************************************************)
(* The client end of a tracked connection applies the next event in flight.*)
(***************************************************************************)
ClientApply(buffer, m) ==
  IF m.ev = "sync-all-code" THEN m.data
  ELSE Put(buffer, m.data.language, m.data.code)

Deliver(s) ==
  /\ s \in tracked
  /\ s \in connected
  /\ inbox[s] # <<>>
  /\ view' = [view EXCEPT ![s] = ClientApply(@, Head(inbox[s]))]
  /\ inbox' = [inbox EXCEPT ![s] = Tail(@)]
  /\ UNCHANGED <<variantSide, storeSide, typingSide, now, connected, subs, socketRooms, serverTables, lastCodeUpdate,
                 saveTimeout, nextSweep, out, last, tracked, edits, accepted>>

(***************************************************************************)
(* Time passes.                                                            *)
(***************************************************************************)
\* a pending timer fires when its instant is reached: the clock does not
\* pass it
Tick(d, horizon) ==
  /\ now + d <= StartTime + horizon
  /\ \A s \in Sockets : \A k \in DOMAIN typingTimeouts[s] :
       typingTimeouts[s][k] >= now + d
  /\ \A r \in DOMAIN codeUpdateTimers : codeUpdateTimers[r].due >= now + d
  /\ redisThrottle.args # Null => redisThrottle.until >= now + d
  /\ now' = now + d
  /\ UNCHANGED <<variantSide, storeSide, typingSide, connected, subs, socketRooms, serverTables, lastCodeUpdate,
                 saveTimeout, nextSweep, out, last, tracked, clientSide, accepted>>

(***************************************************************************)
(* socket.on("send-message")                                               *)
(***************************************************************************)
\* the log after the message: trimmed to its last 100 entries when it holds
\* more than 100, then the message pushed
ChatAfter(log, chatMessage) ==
  Append(IF Len(log) > ChatLimit THEN SliceLast(log, ChatLimit) ELSE log, chatMessage)

\* the room's chat log, empty when the room has none
Chat(roomId) == IF Has(chatHistory, roomId) THEN chatHistory[roomId] ELSE <<>>

\* the handler, for a log of any length
Post(s, roomId, username, message) ==
  LET log == Chat(roomId)
      chatMessage == [username |-> username, message |-> message, timestamp |-> now]
  IN
  /\ s \in connected
  /\ chatHistory' = Put(chatHistory, roomId, ChatAfter(log, chatMessage))
  /\ out' = << Emit(IoTo(subs, roomId), "receive-message", chatMessage) >>
  /\ saveTimeout' = SaveData
  /\ last' = Event("send-message", s, roomId, username, NA, message, TRUE)
  /\ UNCHANGED <<variantSide, storeSide, typingSide, now, connected, subs, socketRooms, rooms, hosts, typingUsers,
                 roomCode, commitHistory, lastCodeUpdate, nextSweep, tracked,
                 clientSide, accepted>>

\* the handler while the log is within the bound explored
SendMessage(s, roomId, username, message) ==
  /\ Len(Chat(roomId)) < MaxChat
  /\ Post(s, roomId, username, message)

(***************************************************************************)
(* socket.on("commit-code")                                                *)
(***************************************************************************)
\* same language and code committed within the last five minutes
IsDuplicateAnyAge(log, language, code, t) ==
  \E i \in 1..Len(log) : log[i].language = language /\ log[i].code = code
IsDuplicate(log, language, code, t) ==
  \E i \in 1..Len(log) :
    /\ log[i].language = language
    /\ log[i].code = code
    /\ log[i].timestamp > t - DuplicateWindow

CommitsAfterHead(log, commitEntry) == <<commitEntry>> \o log
CommitsAfterRestamped(log, commitEntry) ==
  Append([i \in 1..Len(log) |-> [log[i] EXCEPT !.timestamp = commitEntry.timestamp]],
         commitEntry)
CommitsAfter(log, commitEntry) ==
  Append(IF Len(log) > CommitLimit THEN SliceLast(log, CommitLimit) ELSE log,
         commitEntry)

\* suffix: Math.random().toString(36).substring(2, 5)
\* the handler, for a log of any length
Commit(s, roomId, code, language, commitMessage, suffix) ==
  LET log == IF Has(commitHistory, roomId) THEN commitHistory[roomId] ELSE <<>>
      commitEntry == [commitHash |-> <<now, suffix>>, timestamp |-> now,
                      commitMessage |-> commitMessage, language |-> language,
                      code |-> code]
      dup == IsDuplicate(log, language, code, now)
  IN
  /\ s \in connected
  /\ IF dup
     THEN /\ commitHistory' = Put(commitHistory, roomId, log)
          /\ out' = <<>>
          /\ UNCHANGED saveTimeout
     ELSE /\ commitHistory' = Put(commitHistory, roomId, CommitsAfter(log, commitEntry))
          /\ saveTimeout' = SaveData
          /\ out' = << Emit(IoTo(subs, roomId), "commit-history",
                            CommitSummaries(CommitsAfter(log, commitEntry))) >>
  /\ last' = [Event("commit-code", s, roomId, NA, language, code, ~dup)
                EXCEPT !.message = commitMessage]
  /\ UNCHANGED <<variantSide, storeSide, typingSide, now, connected, subs, socketRooms, rooms, hosts, typingUsers,
                 roomCode, chatHistory, lastCodeUpdate, nextSweep, tracked,
                 clientSide, accepted>>

\* the handler while the log is within the bound explored
CommitCode(s, roomId, code, language, commitMessage, suffix) ==
  /\ Len(IF Has(commitHistory, roomId) THEN commitHistory[roomId] ELSE <<>>) < MaxCommits
  /\ Commit(s, roomId, code, language, commitMessage, suffix)

(***************************************************************************)
(* The hourly cleanup interval: the sweep of empty, inactive rooms.        *)
(***************************************************************************)
\* new Date(lastCommit.timestamp).getTime() of the last commit, else 0
LastActivity(roomId) ==
  IF Has(commitHistory, roomId) /\ Len(commitHistory[roomId]) > 0
  THEN commitHistory[roomId][Len(commitHistory[roomId])].timestamp
  ELSE 0

\* the rooms the sweep deletes
Swept ==
  {r \in DOMAIN rooms : Len(rooms[r]) = 0 /\ now - LastActivity(r) > ONE_WEEK}

Without(m, ks) == [x \in (DOMAIN m) \ ks |-> m[x]]

\* the share links the sweep deletes
Expired ==
  {h \in DOMAIN sharedCode :
     sharedCode[h].createdAt # 0 /\ now - sharedCode[h].createdAt > ONE_WEEK}

\* the saveData() that ends the sweep
SweepSaveNone == saveTimeout
SweepSave == SaveData

Cleanup ==
  /\ now >= nextSweep
  /\ nextSweep' = now + SweepInterval
  /\ sharedCode' = Without(sharedCode, Expired)
  /\ rooms' = Without(rooms, Swept)
  /\ hosts' = Without(hosts, Swept)
  /\ typingUsers' = Without(typingUsers, Swept)
  /\ roomCode' = Without(roomCode, Swept)
  /\ chatHistory' = Without(chatHistory, Swept)
  /\ commitHistory' = Without(commitHistory, Swept)
  /\ saveTimeout' = SweepSave
  /\ out' = <<>>
  /\ last' = Event("cleanup", NA, NA, NA, NA, NA, Swept # {})
  /\ UNCHANGED <<variantSide, disk, failed, awaiting, typingSide, now, connected, subs, socketRooms, lastCodeUpdate, tracked,
                 clientSide, accepted>>

(***************************************************************************)
(* socket.on("typing"), socket.on("stop-typing") and the expiry timer.     *)
(* typingTimeouts is a closure variable of the connection: each connection *)
(* has its own table of timers, keyed `${roomId}-${username}`.             *)
(***************************************************************************)
\* the room's typing set, empty when the room has none
TypingSet(roomId) == IF Has(typingUsers, roomId) THEN typingUsers[roomId] ELSE {}

\* the number of typing and stop-typing events handled so far
Signals == Sum([k \in DOMAIN typed |-> typed[k].n], DOMAIN typed)

\* the signal history after one more event for (roomId, username); a typing
\* event records its time
Signalled(roomId, username, isTyping) ==
  LET k == <<roomId, username>>
      old == IF Has(typed, k) THEN typed[k] ELSE [at |-> 0, n |-> 0]
  IN Put(typed, k, [at |-> IF isTyping THEN now ELSE old.at, n |-> old.n + 1])

\* if (!wasTyping) io.to(roomId).emit("user-typing", Array.from(typingUsers[roomId]))
TypingEmitsAlways(wasTyping, to, set) == << Emit(to, "user-typing", set) >>
TypingEmits(wasTyping, to, set) ==
  IF wasTyping THEN <<>> ELSE << Emit(to, "user-typing", set) >>

Typing(s, roomId, username, horizon) ==
  LET key == Key(roomId, username)
      wasTyping == username \in TypingSet(roomId)
      set == TypingSet(roomId) \cup {username}
  IN
  /\ s \in connected
  /\ Signals < MaxSignals
  /\ now + TypingExpiry <= StartTime + horizon
  /\ typingUsers' = Put(typingUsers, roomId, set)
  /\ out' = TypingEmits(wasTyping, IoTo(subs, roomId), set)
  /\ typingTimeouts' = [typingTimeouts EXCEPT ![s] = Put(@, key, now + TypingExpiry)]
  /\ typed' = Signalled(roomId, username, TRUE)
  /\ last' = Event("typing", s, roomId, username, NA, NA, ~wasTyping)
  /\ UNCHANGED <<variantSide, storeSide, now, connected, subs, socketRooms, rooms, hosts, roomCode,
                 chatHistory, commitHistory, lastCodeUpdate, saveTimeout, nextSweep,
                 tracked, clientSide, accepted>>

StopTyping(s, roomId, username) ==
  LET key == Key(roomId, username)
      set == TypingSet(roomId) \ {username}
  IN
  /\ s \in connected
  /\ Signals < MaxSignals
  /\ IF Has(typingUsers, roomId)
     THEN /\ typingTimeouts' = [typingTimeouts EXCEPT ![s] = Del(@, key)]
          /\ typingUsers' = Put(typingUsers, roomId, set)
          /\ out' = << Emit(IoTo(subs, roomId), "user-typing", set) >>
     ELSE /\ out' = <<>>
          /\ UNCHANGED <<typingTimeouts, typingUsers>>
  /\ typed' = Signalled(roomId, username, FALSE)
  /\ last' = Event("stop-typing", s, roomId, username, NA, NA,
                   username \in TypingSet(roomId))
  /\ UNCHANGED <<variantSide, storeSide, now, connected, subs, socketRooms, rooms, hosts, roomCode,
                 chatHistory, commitHistory, lastCodeUpdate, saveTimeout, nextSweep,
                 tracked, clientSide, accepted>>

\* typingUsers[roomId].delete(username) in the timer callback
ExpireSetKeep(set, username) == set
ExpireSet(set, username) == set \ {username}

\* the callback of the timer that connection s started for (roomId, username)
TypingTimeout(s, roomId, username) ==
  LET key == Key(roomId, username)
      set == ExpireSet(TypingSet(roomId), username)
  IN
  /\ Has(typingTimeouts[s], key)
  /\ typingTimeouts[s][key] <= now
  /\ typingTimeouts' = [typingTimeouts EXCEPT ![s] = Del(@, key)]
  /\ IF Has(typingUsers, roomId)
     THEN /\ typingUsers' = Put(typingUsers, roomId, set)
          /\ out' = << Emit(IoTo(subs, roomId), "user-typing", set) >>
     ELSE /\ out' = <<>>
          /\ UNCHANGED typingUsers
  /\ last' = Event("typing-timeout", s, roomId, username, NA, NA,
                   username \in TypingSet(roomId))
  /\ UNCHANGED <<variantSide, storeSide, now, connected, subs, socketRooms, rooms, hosts, roomCode,
                 chatHistory, commitHistory, lastCodeUpdate, saveTimeout, nextSweep,
                 tracked, clientSide, accepted, typed>>

(***************************************************************************)
(* socket.on("language-update"): the read of one buffer.                   *)
(***************************************************************************)
\* the value of an absent property
Undefined == "<undefined>"
Placeholder == "// Start coding..."

\* roomCode[roomId]?.[language]
Lookup(tbl, roomId, language) ==
  IF Has(tbl, roomId) /\ Has(tbl[roomId], language) THEN tbl[roomId][language]
  ELSE Undefined

\* a || b on strings: b when a is undefined or the empty string
OrElse(a, b) == IF a = Undefined \/ a = "" THEN b ELSE a

\* the handler assigns to no table
CodeAfterReadStored(tbl, roomId, language, savedCode) ==
  StoreCode(tbl, roomId, language, savedCode)
CodeAfterRead(tbl, roomId, language, savedCode) == tbl

LanguageUpdate(s, roomId, language) ==
  LET savedCode == OrElse(Lookup(roomCode, roomId, language), Placeholder)
  IN
  /\ s \in connected
  /\ roomCode' = CodeAfterRead(roomCode, roomId, language, savedCode)
  /\ out' = << Emit(SocketEmit(subs, s), "language-update",
                    [language |-> language, code |-> savedCode]) >>
  /\ last' = Event("language-update", s, roomId, NA, language, savedCode, FALSE)
  /\ UNCHANGED <<variantSide, storeSide, typingSide, now, connected, subs, socketRooms, rooms, hosts,
                 typingUsers, chatHistory, commitHistory, lastCodeUpdate,
                 saveTimeout, nextSweep, tracked, clientSide, accepted>>

(***************************************************************************)
(* socket.on("restore-code")                                               *)
(***************************************************************************)
\* the room's commit log, empty when the room has none
Log(roomId) == IF Has(commitHistory, roomId) THEN commitHistory[roomId] ELSE <<>>

\* commitHistory[roomId]?.find(c => c.commitHash === commitHash): the index
\* of the first entry with that hash, 0 when there is none
FindOrLatest(log, commitHash) ==
  LET hits == {i \in 1..Len(log) : log[i].commitHash = commitHash}
  IN IF hits = {} THEN Len(log) ELSE CHOOSE i \in hits : \A j \in hits : i <= j
Find(log, commitHash) ==
  LET hits == {i \in 1..Len(log) : log[i].commitHash = commitHash}
  IN IF hits = {} THEN 0 ELSE CHOOSE i \in hits : \A j \in hits : i <= j

RestoreCode(s, roomId, commitHash) ==
  LET i == Find(Log(roomId), commitHash)
      commit == Log(roomId)[i]
      emits == << Emit(IoTo(subs, roomId), "code-update",
                       [code |-> commit.code, language |-> commit.language]),
                  Emit(IoTo(subs, roomId), "language-update",
                       [language |-> commit.language, code |-> commit.code]) >>
  IN
  /\ s \in connected
  /\ IF i # 0
     THEN /\ roomCode' = StoreCode(roomCode, roomId, commit.language, commit.code)
          /\ saveTimeout' = SaveData
          /\ out' = emits
          /\ inbox' = Enqueue(inbox, emits)
          /\ last' = [Event("restore-code", s, roomId, NA, commit.language,
                            commit.code, TRUE) EXCEPT !.commitHash = commitHash]
     ELSE /\ out' = <<>>
          /\ last' = [Event("restore-code", s, roomId, NA, NA, NA, FALSE)
                          EXCEPT !.commitHash = commitHash]
          /\ UNCHANGED <<roomCode, saveTimeout, inbox>>
  /\ UNCHANGED <<variantSide, storeSide, typingSide, now, connected, subs, socketRooms, rooms, hosts,
                 typingUsers, chatHistory, commitHistory, lastCodeUpdate,
                 nextSweep, tracked, view, edits, accepted>>

(***************************************************************************)
(* The timer saveData sets: the write of data.json.                        *)
(***************************************************************************)
SaveFire(outcome) ==
  \E t \in saveTimeout :
    /\ now >= t
    /\ outcome # "written" => failed < MaxFailures
    /\ saveTimeout' = saveTimeout \ {t}
    /\ disk' = DiskAfter(Snapshot, outcome)
    /\ failed' = IF outcome = "written" THEN failed ELSE failed + 1
    /\ out' = <<>>
    /\ last' = Event("save", NA, NA, NA, NA, NA, outcome = "written")
    /\ UNCHANGED <<variantSide, sharedCode, awaiting, typingSide, now, connected, subs, socketRooms,
                   serverTables, lastCodeUpdate, nextSweep, tracked, clientSide,
                   accepted>>

(***************************************************************************)
(* The process ends and starts again: every connection, subscription and   *)
(* timer is gone and the tables are read from data.json.                   *)
(***************************************************************************)
Restart ==
  /\ connected' = {}
  /\ subs' = [s \in Sockets |-> {}]
  /\ socketRooms' = EmptyMap
  /\ rooms' = LoadData.rooms
  /\ hosts' = LoadData.hosts
  /\ typingUsers' = TypingAfterLoad(LoadData.typingUsers)
  /\ roomCode' = LoadData.roomCode
  /\ sharedCode' = LoadData.sharedCode
  /\ commitHistory' = LoadData.commitHistory
  /\ chatHistory' = LoadData.chatHistory
  /\ lastCodeUpdate' = [s \in Sockets |-> EmptyMap]
  /\ typingTimeouts' = [s \in Sockets |-> EmptyMap]
  /\ saveTimeout' = {}
  /\ nextSweep' = now + SweepInterval
  /\ awaiting' = <<>>
  /\ out' = <<>>
  /\ last' = Event("restart", NA, NA, NA, NA, NA, last.op = "save" /\ last.applied)
  /\ codeUpdateTimers' = EmptyMap
  /\ reading' = <<>>
  /\ redisThrottle' = [until |-> now, args |-> Null]
  /\ UNCHANGED <<redis, disk, failed, typed, now, tracked, clientSide, accepted>>

(***************************************************************************)
(* socket.on("generate-shareable-link"), socket.on("load-shared-code")     *)
(***************************************************************************)
ShareUrl(shareId) == "http://localhost:3000/codeeditor?shared=" \o shareId

\* shareId is Math.random().toString(36).substring(2, 9)
GenerateShareableLink(s, code, shareId) ==
  /\ s \in connected
  /\ sharedCode' = Put(sharedCode, shareId, [code |-> code, createdAt |-> now])
  /\ saveTimeout' = SaveData
  /\ out' = << Emit(SocketEmit(subs, s), "shareable-link", ShareUrl(shareId)) >>
  /\ last' = [Event("generate-shareable-link", s, NA, NA, NA, code, TRUE)
                EXCEPT !.shareId = shareId]
  /\ UNCHANGED <<variantSide, disk, failed, awaiting, typingSide, now, connected, subs, socketRooms,
                 serverTables, lastCodeUpdate, nextSweep, tracked, clientSide, accepted>>

LoadSharedCode(s, shareId) ==
  /\ s \in connected
  /\ out' = IF Has(sharedCode, shareId)
            THEN << Emit(SocketEmit(subs, s), "shared-code-loaded",
                         sharedCode[shareId].code) >>
            ELSE << Emit(SocketEmit(subs, s), "shared-code-error",
                         "Shared code not found!") >>
  /\ last' = [Event("load-shared-code", s, NA, NA, NA, NA, Has(sharedCode, shareId))
                EXCEPT !.shareId = shareId]
  /\ UNCHANGED <<variantSide, storeSide, typingSide, now, connected, subs, socketRooms, serverTables,
                 lastCodeUpdate, saveTimeout, nextSweep, tracked, clientSide, accepted>>

(***************************************************************************)
(* The join-room handler that awaits saveData (promise-based fs): the      *)
(* handler runs up to the await, the write is started with the text of the *)
(* tables at that moment, and the handler resumes, and emits, when the     *)
(* write has settled.                                                      *)
(***************************************************************************)
\* JSON.stringify({rooms, hosts, typingUsers, roomCode, commitHistory, sharedCode})
FileTextAwait(r, h, tu, rc, ch, sc) ==
  [rooms |-> r, hosts |-> h, typingUsers |-> [x \in DOMAIN tu |-> SetAsJson(tu[x])],
   roomCode |-> rc, commitHistory |-> ch, sharedCode |-> sc]

\* tbl[roomId] = tbl[roomId] || empty
OrCreate(tbl, roomId, empty) == IF Has(tbl, roomId) THEN tbl ELSE Put(tbl, roomId, empty)

\* the handler up to "await saveData()"
JoinRoomAwait(s, roomId, username) ==
  LET rooms1 == OrCreate(rooms, roomId, <<>>)
      host == IF Has(hosts, roomId) /\ hosts[roomId] # Null THEN hosts[roomId]
              ELSE username
      hosts1 == Put(hosts, roomId, host)
      code1 == OrCreate(roomCode, roomId, EmptyMap)
      chat1 == OrCreate(chatHistory, roomId, <<>>)
      commits1 == OrCreate(commitHistory, roomId, <<>>)
      rooms2 == [rooms1 EXCEPT ![roomId] = AddMember(@, username)]
  IN
  /\ s \in connected
  /\ Len(awaiting) < MaxPending
  /\ subs' = [subs EXCEPT ![s] = @ \cup {roomId}]
  /\ rooms' = rooms2
  /\ hosts' = hosts1
  /\ roomCode' = code1
  /\ chatHistory' = chat1
  /\ commitHistory' = commits1
  /\ awaiting' = Append(awaiting,
                        [op |-> "join-room", sock |-> s, roomId |-> roomId,
                         text |-> FileTextAwait(rooms2, hosts1, typingUsers, code1,
                                                commits1, sharedCode)])
  /\ out' = <<>>
  /\ last' = Event("join-room", s, roomId, username, NA, NA, TRUE)
  /\ UNCHANGED <<variantSide, sharedCode, disk, failed, typingSide, now, connected, socketRooms,
                 typingUsers, lastCodeUpdate, saveTimeout, nextSweep, tracked,
                 clientSide, accepted>>

\* the i-th entry of a sequence removed
Remove(seq, i) == SubSeq(seq, 1, i - 1) \o SubSeq(seq, i + 1, Len(seq))

\* fs.writeFile of the i-th suspended handler settles (a failure is caught
\* in saveData) and the handler resumes after the await
WriteSettled(i, outcome) ==
  LET w == awaiting[i]
      to == {w.sock} \cap connected
      emits == << Emit(to, "sync-all-code", roomCode[w.roomId]),
                  Emit(to, "chat-history", chatHistory[w.roomId]),
                  Emit(to, "commit-history", CommitSummaries(commitHistory[w.roomId])),
                  Emit(IoTo(subs, w.roomId), "user-list", rooms[w.roomId]),
                  Emit(IoTo(subs, w.roomId), "server-owner", hosts[w.roomId]) >>
  IN
  /\ i \in 1..Len(awaiting)
  /\ w.op = "join-room"
  /\ outcome # "written" => failed < MaxFailures
  /\ disk' = DiskAfter(w.text, outcome)
  /\ failed' = IF outcome = "written" THEN failed ELSE failed + 1
  /\ awaiting' = Remove(awaiting, i)
  /\ out' = emits
  /\ inbox' = Enqueue(inbox, emits)
  /\ last' = Event("join-room resumed", w.sock, w.roomId, NA, NA, NA, outcome = "written")
  /\ UNCHANGED <<variantSide, sharedCode, typingSide, now, connected, subs, socketRooms, serverTables,
                 lastCodeUpdate, saveTimeout, nextSweep, tracked, view, edits, accepted>>

(***************************************************************************)
(* The clock in a run of unbounded length.  Instants are kept relative to  *)
(* now: when d elapses the pending deadlines come d closer and now keeps   *)
(* its value; no deadline is passed before its timer has fired.  Only for  *)
(* states that hold no other instant.                                      *)
(***************************************************************************)
Elapse(d) ==
  /\ d > 0
  /\ \A t \in saveTimeout \cup {nextSweep} : now + d <= t
  /\ \A s \in Sockets : lastCodeUpdate[s] = EmptyMap /\ typingTimeouts[s] = EmptyMap
  /\ \A r \in DOMAIN chatHistory : chatHistory[r] = <<>>
  /\ \A r \in DOMAIN commitHistory : commitHistory[r] = <<>>
  /\ sharedCode = EmptyMap /\ accepted = EmptyMap /\ typed = EmptyMap
  /\ saveTimeout' = {t - d : t \in saveTimeout}
  /\ nextSweep' = nextSweep - d
  /\ UNCHANGED <<variantSide, storeSide, typingSide, now, connected, subs, socketRooms, serverTables,
                 lastCodeUpdate, out, last, tracked, clientSide, accepted>>

(***************************************************************************)
(* The memory-only server: tables are never written anywhere, join-room    *)
(* keeps what a room already holds, code-update stores at once and delays  *)
(* its broadcast by debounceTime with one timer per room.                  *)
(***************************************************************************)
debounceTime == 100

JoinRoomMemory(s, roomId, username) ==
  LET rooms1 == OrCreate(rooms, roomId, <<>>)
      host == IF Has(hosts, roomId) /\ hosts[roomId] # Null THEN hosts[roomId]
              ELSE username
      code1 == OrCreate(roomCode, roomId, EmptyMap)
      chat1 == OrCreate(chatHistory, roomId, <<>>)
      commits1 == OrCreate(commitHistory, roomId, <<>>)
      rooms2 == [rooms1 EXCEPT ![roomId] = AddMember(@, username)]
      subs1 == [subs EXCEPT ![s] = @ \cup {roomId}]
      emits == << Emit({s}, "sync-all-code", code1[roomId]),
                  Emit({s}, "chat-history", chat1[roomId]),
                  Emit({s}, "commit-history", CommitSummaries(commits1[roomId])),
                  Emit(IoTo(subs1, roomId), "user-list", rooms2[roomId]),
                  Emit(IoTo(subs1, roomId), "server-owner", host) >>
  IN
  /\ s \in connected
  /\ subs' = subs1
  /\ rooms' = rooms2
  /\ hosts' = Put(hosts, roomId, host)
  /\ roomCode' = code1
  /\ chatHistory' = chat1
  /\ commitHistory' = commits1
  /\ out' = emits
  /\ inbox' = Enqueue(inbox, emits)
  /\ last' = Event("join-room", s, roomId, username, NA, NA, TRUE)
  /\ UNCHANGED <<variantSide, storeSide, typingSide, now, connected, socketRooms,
                 typingUsers, lastCodeUpdate, saveTimeout, nextSweep, tracked, view,
                 edits, accepted>>

\* clearTimeout(codeUpdateTimers[roomId]); codeUpdateTimers[roomId] = setTimeout(.., delay)
\* one timer per room, whatever the language of the update it carries
SetRoomTimer(timers, roomId, delay, code, language) ==
  Put(timers, roomId, [due |-> now + delay, code |-> code, language |-> language])

CodeUpdateDelayed(s, roomId, code, language) ==
  /\ s \in connected
  /\ roomCode' = StoreCode(roomCode, roomId, language, code)
  /\ codeUpdateTimers' = SetRoomTimer(codeUpdateTimers, roomId, debounceTime, code, language)
  /\ accepted' = Put(accepted, <<roomId, language>>,
                     [time |-> now, code |-> code, sock |-> s])
  /\ out' = <<>>
  /\ last' = Event("code-update", s, roomId, NA, language, code, TRUE)
  /\ UNCHANGED <<redis, reading, redisThrottle, storeSide, typingSide, now, connected,
                 subs, socketRooms, rooms, hosts, typingUsers, chatHistory,
                 commitHistory, lastCodeUpdate, saveTimeout, nextSweep, tracked,
                 clientSide>>

\* the callback of the timer: io.to(roomId).emit("code-update", {code, language})
\* with the code and language of the update that set it
CodeUpdateTimeout(roomId) ==
  LET t == codeUpdateTimers[roomId]
      emits == << Emit(IoTo(subs, roomId), "code-update",
                       [code |-> t.code, language |-> t.language]) >>
  IN
  /\ Has(codeUpdateTimers, roomId)
  /\ now >= t.due
  /\ codeUpdateTimers' = Del(codeUpdateTimers, roomId)
  /\ out' = emits
  /\ inbox' = Enqueue(inbox, emits)
  /\ last' = Event("code-update timeout", NA, roomId, NA, t.language, t.code, TRUE)
  /\ UNCHANGED <<redis, reading, redisThrottle, storeSide, typingSide, now, connected,
                 subs, socketRooms, serverTables, lastCodeUpdate, saveTimeout,
                 nextSweep, tracked, view, edits, accepted>>

\* commit-code of the memory-only server: every commit is pushed
CommitCodeMemory(s, roomId, code, language, commitMessage, suffix) ==
  LET commitEntry == [commitHash |-> <<now, suffix>>, timestamp |-> now,
                      commitMessage |-> commitMessage, language |-> language,
                      code |-> code]
      log == Append(Log(roomId), commitEntry)
  IN
  /\ s \in connected
  /\ Len(Log(roomId)) < MaxCommits
  /\ commitHistory' = Put(commitHistory, roomId, log)
  /\ out' = << Emit(IoTo(subs, roomId), "commit-history", CommitSummaries(log)) >>
  /\ last' = [Event("commit-code", s, roomId, NA, language, code, TRUE)
                EXCEPT !.message = commitMessage]
  /\ UNCHANGED <<variantSide, storeSide, typingSide, now, connected, subs, socketRooms,
                 rooms, hosts, typingUsers, roomCode, chatHistory, lastCodeUpdate,
                 saveTimeout, nextSweep, tracked, clientSide, accepted>>

\* restore-code of the memory-only server: applied and broadcast at once;
\* the timer of the room is left as it is
RestoreCodeMemory(s, roomId, commitHash) ==
  LET i == Find(Log(roomId), commitHash)
      commit == Log(roomId)[i]
      emits == << Emit(IoTo(subs, roomId), "code-update",
                       [code |-> commit.code, language |-> commit.language]),
                  Emit(IoTo(subs, roomId), "language-update",
                       [language |-> commit.language, code |-> commit.code]) >>
  IN
  /\ s \in connected
  /\ IF i # 0
     THEN /\ roomCode' = StoreCode(roomCode, roomId, commit.language, commit.code)
          /\ out' = emits
          /\ inbox' = Enqueue(inbox, emits)
          /\ last' = [Event("restore-code", s, roomId, NA, commit.language,
                            commit.code, TRUE) EXCEPT !.commitHash = commitHash]
     ELSE /\ out' = <<>>
          /\ last' = [Event("restore-code", s, roomId, NA, NA, NA, FALSE)
                          EXCEPT !.commitHash = commitHash]
          /\ UNCHANGED <<roomCode, inbox>>
  /\ UNCHANGED <<variantSide, storeSide, typingSide, now, connected, subs, socketRooms,
                 rooms, hosts, typingUsers, chatHistory, commitHistory,
                 lastCodeUpdate, saveTimeout, nextSweep, tracked, view, edits,
                 accepted>>

(***************************************************************************)
(* The debounced code-update handler of the server that awaits saveData:   *)
(* the handler only sets the timer of the room; the callback of the timer  *)
(* stores the content, awaits the write of data.json and then broadcasts.  *)
(***************************************************************************)
DebounceMs == 200

CodeUpdateDebounced(s, roomId, code, language) ==
  /\ s \in connected
  /\ roomCode' = OrCreate(roomCode, roomId, EmptyMap)
  /\ codeUpdateTimers' = SetRoomTimer(codeUpdateTimers, roomId, DebounceMs, code, language)
  /\ accepted' = Put(accepted, <<roomId, language>>,
                     [time |-> now, code |-> code, sock |-> s])
  /\ out' = <<>>
  /\ last' = Event("code-update", s, roomId, NA, language, code, FALSE)
  /\ UNCHANGED <<redis, reading, redisThrottle, storeSide, typingSide, now, connected,
                 subs, socketRooms, rooms, hosts, typingUsers, chatHistory,
                 commitHistory, lastCodeUpdate, saveTimeout, nextSweep, tracked,
                 clientSide>>

\* the callback up to "await saveData()"
CodeUpdateDebouncedTimeout(roomId) ==
  LET t == codeUpdateTimers[roomId]
      code1 == StoreCode(roomCode, roomId, t.language, t.code)
  IN
  /\ Has(codeUpdateTimers, roomId)
  /\ now >= t.due
  /\ Len(awaiting) < MaxPending
  /\ codeUpdateTimers' = Del(codeUpdateTimers, roomId)
  /\ roomCode' = code1
  /\ awaiting' = Append(awaiting,
                        [op |-> "code-update", sock |-> NA, roomId |-> roomId,
                         code |-> t.code, language |-> t.language,
                         text |-> FileTextAwait(rooms, hosts, typingUsers, code1,
                                                commitHistory, sharedCode)])
  /\ out' = <<>>
  /\ last' = Event("code-update timeout", NA, roomId, NA, t.language, t.code, TRUE)
  /\ UNCHANGED <<redis, reading, redisThrottle, sharedCode, disk, failed, typingSide,
                 now, connected, subs, socketRooms, rooms, hosts, typingUsers,
                 chatHistory, commitHistory, lastCodeUpdate, saveTimeout, nextSweep,
                 tracked, clientSide, accepted>>

\* the write started by the i-th suspended callback settles and the callback
\* resumes: io.to(roomId).emit("code-update", {code, language})
CodeUpdateSettled(i, outcome) ==
  LET w == awaiting[i]
      emits == << Emit(IoTo(subs, w.roomId), "code-update",
                       [code |-> w.code, language |-> w.language]) >>
  IN
  /\ i \in 1..Len(awaiting)
  /\ w.op = "code-update"
  /\ outcome # "written" => failed < MaxFailures
  /\ disk' = DiskAfter(w.text, outcome)
  /\ failed' = IF outcome = "written" THEN failed ELSE failed + 1
  /\ awaiting' = Remove(awaiting, i)
  /\ out' = emits
  /\ inbox' = Enqueue(inbox, emits)
  /\ last' = Event("code-update resumed", NA, w.roomId, NA, w.language, w.code,
                   outcome = "written")
  /\ UNCHANGED <<variantSide, sharedCode, typingSide, now, connected, subs,
                 socketRooms, serverTables, lastCodeUpdate, saveTimeout, nextSweep,
                 tracked, view, edits, accepted>>

(***************************************************************************)
(* The store-backed server: every room is kept under the key               *)
(* "room:<roomId>" of a Redis store as the JSON text of                    *)
(* {users, host, code, commits, chat}.  Commands travel on one connection: *)
(* the store serves them, and the replies resume their handlers, in the    *)
(* order in which they were issued.                                        *)
(***************************************************************************)
SaveThrottleMs == 2000
UpdateThrottleMs == 100

RoomFields == {"users", "host", "code", "commits", "chat"}

\* JSON.stringify({users: rooms[roomId], host: hosts[roomId], code: ..}): a
\* key whose value is undefined is left out of the text
RoomJson(roomId, r, h, c, log, chat) ==
  LET tbl == [users |-> r, host |-> h, code |-> c, commits |-> log, chat |-> chat]
  IN [f \in {g \in RoomFields : Has(tbl[g], roomId)} |-> tbl[f][roomId]]

\* parsedData.users || [], parsedData.host, parsedData.code || {}, ..
Parsed(roomData, field, default) ==
  IF field \in DOMAIN roomData THEN roomData[field] ELSE default

\* saveToRedis(key, data) = throttle(redis.set, 2000): a call outside the
\* window sets the key at once and opens a window; a call inside the window
\* replaces the arguments kept for the end of the window.  data holds
\* references to the room's array and maps, read when the text is made, and
\* every handler that replaces one of them calls saveToRedis for that room
\* next: the arguments kept are the key alone.
SaveToRedis(roomId, r, h, c, log, chat) ==
  IF now >= redisThrottle.until
  THEN [redis |-> Put(redis, roomId, RoomJson(roomId, r, h, c, log, chat)),
        throttle |-> [until |-> now + SaveThrottleMs, args |-> Null]]
  ELSE [redis |-> redis,
        throttle |-> [redisThrottle EXCEPT !.args = roomId]]

\* the end of the window: the arguments kept are written and a window opens
RedisFlush ==
  LET roomId == redisThrottle.args IN
  /\ roomId # Null
  /\ now >= redisThrottle.until
  /\ redis' = Put(redis, roomId,
                  RoomJson(roomId, rooms, hosts, roomCode, commitHistory, chatHistory))
  /\ redisThrottle' = [until |-> now + SaveThrottleMs, args |-> Null]
  /\ out' = <<>>
  /\ last' = Event("redis.set", NA, roomId, NA, NA, NA, TRUE)
  /\ UNCHANGED <<codeUpdateTimers, reading, storeSide, typingSide, now, connected,
                 subs, socketRooms, serverTables, lastCodeUpdate, saveTimeout,
                 nextSweep, tracked, clientSide, accepted>>

\* join-room up to "await redis.get": the reply is the text the key holds
\* when the command is served
JoinRoomRead(s, roomId, username) ==
  /\ s \in connected
  /\ Len(reading) < MaxPending
  /\ subs' = [subs EXCEPT ![s] = @ \cup {roomId}]
  /\ reading' = Append(reading,
                       [sock |-> s, roomId |-> roomId, username |-> username,
                        found |-> Has(redis, roomId),
                        roomData |-> IF Has(redis, roomId) THEN redis[roomId]
                                     ELSE EmptyMap])
  /\ out' = <<>>
  /\ last' = Event("join-room", s, roomId, username, NA, NA, FALSE)
  /\ UNCHANGED <<codeUpdateTimers, redis, redisThrottle, storeSide, typingSide, now,
                 connected, socketRooms, serverTables, lastCodeUpdate, saveTimeout,
                 nextSweep, tracked, clientSide, accepted>>

\* if (roomData) { tbl[roomId] = parsedData.field || default }: the entry of
\* the room replaced by the record read, when there is one
Reloaded(tbl, w, field, default) ==
  IF w.found THEN Put(tbl, w.roomId, Parsed(w.roomData, field, default)) ELSE tbl

\* the handler suspended first resumes with its reply
JoinRoomLoaded ==
  LET w == Head(reading)
      roomId == w.roomId
      rooms1 == Reloaded(rooms, w, "users", <<>>)
      hosts1 == Reloaded(hosts, w, "host", Undefined)
      code1 == Reloaded(roomCode, w, "code", EmptyMap)
      commits1 == Reloaded(commitHistory, w, "commits", <<>>)
      chat1 == Reloaded(chatHistory, w, "chat", <<>>)
      fresh == ~Has(rooms1, roomId)
      rooms2 == IF fresh THEN Put(rooms1, roomId, <<>>) ELSE rooms1
      hosts2 == IF fresh THEN Put(hosts1, roomId, w.username) ELSE hosts1
      code2 == IF fresh THEN Put(code1, roomId, EmptyMap) ELSE code1
      chat2 == IF fresh THEN Put(chat1, roomId, <<>>) ELSE chat1
      commits2 == IF fresh THEN Put(commits1, roomId, <<>>) ELSE commits1
      rooms3 == [rooms2 EXCEPT ![roomId] = AddMember(@, w.username)]
      saved == SaveToRedis(roomId, rooms3, hosts2, code2, commits2, chat2)
      to == {w.sock} \cap connected
      emits == << Emit(to, "sync-all-code", code2[roomId]),
                  Emit(to, "chat-history", chat2[roomId]),
                  Emit(to, "commit-history", CommitSummaries(commits2[roomId])),
                  Emit(IoTo(subs, roomId), "user-list", rooms3[roomId]),
                  Emit(IoTo(subs, roomId), "server-owner", hosts2[roomId]) >>
  IN
  /\ reading # <<>>
  /\ reading' = Tail(reading)
  /\ rooms' = rooms3
  /\ hosts' = hosts2
  /\ roomCode' = code2
  /\ chatHistory' = chat2
  /\ commitHistory' = commits2
  /\ typingUsers' = OrCreate(typingUsers, roomId, {})
  /\ redis' = saved.redis
  /\ redisThrottle' = saved.throttle
  /\ out' = emits
  /\ inbox' = Enqueue(inbox, emits)
  /\ last' = Event("join-room resumed", w.sock, roomId, w.username, NA, NA, TRUE)
  /\ UNCHANGED <<codeUpdateTimers, storeSide, typingSide, now, connected, subs,
                 socketRooms, lastCodeUpdate, saveTimeout, nextSweep, tracked, view,
                 edits, accepted>>

\* code-update, wrapped per connection in throttle(.., 100): the call that
\* finds the window of its connection closed runs the handler at once
CodeUpdateStored(s, roomId, code, language) ==
  LET code1 == StoreCode(roomCode, roomId, language, code)
      saved == SaveToRedis(roomId, rooms, hosts, code1, commitHistory, chatHistory)
      emits == << Emit(SocketTo(subs, s, roomId), "code-update",
                       [code |-> code, language |-> language]) >>
  IN
  /\ s \in connected
  /\ ~(Has(lastCodeUpdate[s], "code-update")
         /\ now - lastCodeUpdate[s]["code-update"] < UpdateThrottleMs)
  /\ lastCodeUpdate' = [lastCodeUpdate EXCEPT ![s] = Put(@, "code-update", now)]
  /\ roomCode' = code1
  /\ redis' = saved.redis
  /\ redisThrottle' = saved.throttle
  /\ accepted' = Put(accepted, <<roomId, language>>,
                     [time |-> now, code |-> code, sock |-> s])
  /\ out' = emits
  /\ inbox' = Enqueue(inbox, emits)
  /\ last' = Event("code-update", s, roomId, NA, language, code, TRUE)
  /\ UNCHANGED <<codeUpdateTimers, reading, storeSide, typingSide, now, connected,
                 subs, socketRooms, rooms, hosts, typingUsers, chatHistory,
                 commitHistory, saveTimeout, nextSweep, tracked, view, edits>>

(***************************************************************************)
(* Specifications.                                                         *)
(***************************************************************************)
RoomHorizon == ONE_WEEK

\* membership: joins, leaves and disconnects; three users share room r1 and
\* one of them also uses room r2
MemberSockets == {"s1", "s2"}
MemberInputs == {<<"r1", "A">>, <<"r1", "B">>, <<"r1", "C">>, <<"r2", "A">>}

Next ==
  \/ \E s \in MemberSockets : Connect(s)
  \/ \E s \in MemberSockets, i \in MemberInputs : JoinRoom(s, i[1], i[2])
  \/ \E s \in MemberSockets, i \in MemberInputs : LeaveRoom(s, i[1], i[2])
  \/ \E s \in MemberSockets : Disconnect(s)

Spec == Init /\ [][Next]_vars

(***************************************************************************)
(* Properties of the membership tables.                                    *)
(***************************************************************************)
LeaveOps == {"leave-room", "disconnect"}

\* this step is the run of an event handler (not the clock, not a delivery)
Handled == last'.seq # last.seq

\* the members of room r that remain when username leaves, in list order
Remaining(r, username) == SelectSeq(rooms[r], LAMBDA x : x # username)

\* the handler that ran last emitted event ev with payload data
Emitted(ev, data) == \E i \in 1..Len(out) : out[i].ev = ev /\ out[i].data = data

\* C1: in every reachable state the host of a room is null if and only if
\* the room's member list is empty.
C1_HostNullIffEmpty ==
  \A r \in DOMAIN rooms : (hosts[r] = Null) <=> (rooms[r] = <<>>)

\* C2: in every reachable state the host of a room is null or one of the
\* room's current members.
C2_HostIsMemberOrNull ==
  /\ DOMAIN hosts = DOMAIN rooms
  /\ \A r \in DOMAIN rooms : hosts[r] = Null \/ hosts[r] \in Range(rooms[r])

\* a host has just left a room that keeps members, and a successor was named
C2_Witness ==
  /\ last.op \in LeaveOps
  /\ Has(rooms, last.roomId)
  /\ rooms[last.roomId] # <<>>
  /\ hosts[last.roomId] # Null
  /\ Emitted("server-owner", hosts[last.roomId])

\* C3: when the host leaves (leave-room or disconnect) the host becomes the
\* first remaining member in list order, or null when none remains; when
\* another identity leaves the host is unchanged; the room's entry stays.
C3_HostSuccession ==
  [][ \A r \in DOMAIN rooms :
        (Handled /\ last'.op \in LeaveOps /\ last'.roomId = r) =>
          /\ r \in DOMAIN rooms'
          /\ r \in DOMAIN hosts'
          /\ rooms'[r] = Remaining(r, last'.username)
          /\ hosts'[r] = IF hosts[r] # last'.username THEN hosts[r]
                         ELSE IF Remaining(r, last'.username) = <<>> THEN Null
                         ELSE Head(Remaining(r, last'.username)) ]_vars

\* the host left a room of three; the earlier-joined of the two others leads
C3_Witness ==
  /\ last.op \in LeaveOps
  /\ Has(rooms, last.roomId)
  /\ Len(rooms[last.roomId]) = 2
  /\ hosts[last.roomId] = rooms[last.roomId][1]
  /\ Emitted("server-owner", rooms[last.roomId][1])

NoDuplicateMembers ==
  \A r \in DOMAIN rooms :
    \A i, j \in 1..Len(rooms[r]) : rooms[r][i] = rooms[r][j] => i = j

\* C4: no member list holds an identity twice, and a join-room of an identity
\* that is already a member changes neither the member list nor the host.
C4_IdempotentJoin ==
  /\ []NoDuplicateMembers
  /\ [][ \A r \in DOMAIN rooms :
           (Handled /\ last'.op = "join-room" /\ last'.roomId = r
              /\ last'.username \in Range(rooms[r])) =>
             /\ rooms'[r] = rooms[r]
             /\ hosts'[r] = hosts[r] ]_vars

\* two connections have joined the same room under the same identity, which
\* the member list holds once
C4_Witness ==
  /\ last.op = "join-room"
  /\ \E s \in DOMAIN socketRooms :
       /\ s # last.sock
       /\ socketRooms[s] = [roomId |-> last.roomId, username |-> last.username]
       /\ socketRooms[last.sock] = socketRooms[s]
  /\ Cardinality({i \in 1..Len(rooms[last.roomId]) :
                    rooms[last.roomId][i] = last.username}) = 1
  /\ Len(rooms[last.roomId]) >= 2

(***************************************************************************)
(* One room with content: edits, chat, commits, the sweep and the clock.   *)
(***************************************************************************)
RoomSockets == {"s1", "s2"}
RoomIdentity == [s \in RoomSockets |-> IF s = "s1" THEN "A" ELSE "B"]

NextRooms ==
  \/ \E s \in RoomSockets : Connect(s)
  \/ \E s \in RoomSockets : JoinRoom(s, "r1", RoomIdentity[s])
  \/ \E s, x \in RoomSockets : LeaveRoom(s, "r1", RoomIdentity[x])
  \/ \E s \in RoomSockets : Disconnect(s)
  \/ CodeUpdate("s1", "r1", "X", "js")
  \/ SendMessage("s1", "r1", "A", "hi")
  \/ CommitCode("s1", "r1", "X", "js", "m1", "k1")
  \/ Cleanup
  \/ Tick(ONE_WEEK, RoomHorizon)

SpecRooms == Init /\ [][NextRooms]_vars

\* C5: a leave-room or disconnect, that of the last member included, leaves
\* the room's code, chat log and commit log unchanged and the room in the
\* tables; a room's entry disappears only in a step of the cleanup sweep.
C5_VacantRoomSurvives ==
  [][ /\ \A r \in DOMAIN rooms :
           (Handled /\ last'.op \in LeaveOps /\ last'.roomId = r) =>
             /\ r \in DOMAIN rooms'
             /\ roomCode' = roomCode
             /\ chatHistory' = chatHistory
             /\ commitHistory' = commitHistory
      /\ \A r \in DOMAIN rooms :
           r \notin DOMAIN rooms' => last'.op = "cleanup" ]_vars

\* the last member (the host) has just left a room that holds code, chat
\* and a commit
C5_Witness ==
  /\ last.op \in LeaveOps
  /\ Has(rooms, last.roomId)
  /\ rooms[last.roomId] = <<>>
  /\ Emitted("server-owner", Null)
  /\ Has(roomCode, last.roomId) /\ DOMAIN roomCode[last.roomId] # {}
  /\ Has(chatHistory, last.roomId) /\ chatHistory[last.roomId] # <<>>
  /\ Has(commitHistory, last.roomId) /\ commitHistory[last.roomId] # <<>>

\* the connections that are in room r: connected and subscribed to it
InRoom(r) == {s \in connected : r \in subs[s]}

\* C6: join-room sends sync-all-code, chat-history and commit-history to the
\* joining connection alone, carrying the room's code map, chat log and
\* commit summaries (id and message of every entry, in order) as they are at
\* the join, and user-list and server-owner to every connection in the room.
C6_JoinSnapshot ==
  last.op = "join-room" =>
    LET r == last.roomId
        log == commitHistory[r]
    IN /\ Len(out) = 5
       /\ out[1] = [to |-> {last.sock}, ev |-> "sync-all-code", data |-> roomCode[r]]
       /\ out[2] = [to |-> {last.sock}, ev |-> "chat-history", data |-> chatHistory[r]]
       /\ out[3].to = {last.sock}
       /\ out[3].ev = "commit-history"
       /\ Len(out[3].data) = Len(log)
       /\ \A i \in 1..Len(log) :
            out[3].data[i] = <<log[i].commitHash, log[i].commitMessage>>
       /\ out[4] = [to |-> InRoom(r), ev |-> "user-list", data |-> rooms[r]]
       /\ out[5] = [to |-> InRoom(r), ev |-> "server-owner", data |-> hosts[r]]
       /\ last.sock \in InRoom(r)

\* a connection joins a room that holds code, chat and a commit while another
\* connection is in the room
C6_Witness ==
  /\ last.op = "join-room"
  /\ DOMAIN roomCode[last.roomId] # {}
  /\ chatHistory[last.roomId] # <<>>
  /\ commitHistory[last.roomId] # <<>>
  /\ Cardinality(InRoom(last.roomId)) >= 2
  /\ out[1].to = {last.sock}

(***************************************************************************)
(* Edits of the buffers of one room over three connections.                *)
(***************************************************************************)
SyncIdentity == [s \in Sockets |-> CASE s = "s1" -> "A" [] s = "s2" -> "B" [] OTHER -> "C"]
EditHorizon == ThrottleMs

\* every connection edits the js buffer; one of them also edits the py buffer
EditInputs == (Sockets \X Codes \X {"js"}) \cup {<<"s1", "X", "py">>}

NextEdit ==
  \/ \E s \in Sockets : Connect(s)
  \/ \E s \in Sockets : JoinRoom(s, "r1", SyncIdentity[s])
  \/ \E i \in EditInputs : CodeUpdate(i[1], "r1", i[2], i[3])
  \/ Tick(ThrottleMs, EditHorizon)

SpecEdit == Init /\ [][NextEdit]_vars

(***************************************************************************)
(* One buffer edited over two connections whose editors are followed.      *)
(***************************************************************************)
SyncSockets == {"s1", "s2"}
SyncHorizon == ThrottleMs

InitSync == InitServer /\ InitClients(SyncSockets)

NextSync ==
  \/ \E s \in SyncSockets : Connect(s)
  \/ \E s \in SyncSockets : JoinRoom(s, "r1", SyncIdentity[s])
  \/ \E s \in SyncSockets, c \in Codes : CodeUpdate(s, "r1", c, "js")
  \/ \E s \in SyncSockets : Deliver(s)
  \/ Tick(ThrottleMs, SyncHorizon)

SpecSync == InitSync /\ [][NextSync]_vars

\* this step handles a code-update for room r and language l
UpdateStep(r, l) ==
  Handled /\ last'.op = "code-update" /\ last'.roomId = r /\ last'.language = l

\* the latest applied update of (r, l) is less than 100 ms old
InWindow(r, l) ==
  Has(accepted, <<r, l>>) /\ now - accepted[<<r, l>>].time < ThrottleMs

\* C7: a code-update for (room, language) that arrives less than 100 ms after
\* the previous accepted code-update of that pair, from whichever connection,
\* is dropped: buffer unchanged, no broadcast, no persistence scheduled.
C7_ThrottlePerRoomLanguage ==
  [][ \A r \in RoomIds, l \in Languages :
        (UpdateStep(r, l) /\ InWindow(r, l)) =>
          /\ roomCode' = roomCode
          /\ out' = <<>>
          /\ saveTimeout' = saveTimeout ]_vars

\* C8: of two code-updates for the same (room, language) within the window
\* exactly one is broadcast, and that broadcast and the stored buffer carry
\* the content of the later one.  The earlier update was applied and
\* broadcast when it arrived (accepted records it), so the later one must
\* add no broadcast, the broadcast made must carry the later content, and
\* the buffer must hold the later content.
C8_CoalesceKeepsLater ==
  [][ \A r \in RoomIds, l \in Languages :
        (UpdateStep(r, l) /\ InWindow(r, l)) =>
          /\ roomCode'[r][l] = last'.code
          /\ out' = <<>>
          /\ accepted[<<r, l>>].code = last'.code ]_vars

\* C9: an accepted code-update is emitted once, to every other connection in
\* the room and not to the connection that sent it.
C9_BroadcastExcludesSender ==
  [][ \A r \in RoomIds, l \in Languages :
        (UpdateStep(r, l) /\ last'.applied) =>
          LET m == [ev |-> "code-update",
                    data |-> [code |-> last'.code, language |-> l]]
          IN /\ Len(out') = 1
             /\ out'[1].ev = "code-update"
             /\ out'[1].data = m.data
             /\ out'[1].to = InRoom(r) \ {last'.sock}
             /\ \A s \in tracked :
                  inbox'[s] = IF s \in InRoom(r) /\ s # last'.sock
                              THEN Append(inbox[s], m) ELSE inbox[s] ]_vars

\* a connection in a room of three has had its update applied and broadcast
\* to the two others
C9_Witness ==
  /\ last.op = "code-update"
  /\ last.applied
  /\ last.sock \in InRoom(last.roomId)
  /\ Len(out) = 1
  /\ Cardinality(out[1].to) = 2
  /\ last.sock \notin out[1].to

(***************************************************************************)
(* Typing indicators of one room over two connections.                     *)
(***************************************************************************)
TypingSockets == {"s1", "s2"}
TypingUsers == {"A", "B"}
\* the clock moves in halves of the expiry delay, over two delays
TypingStep == TypingExpiry \div 2
TypingHorizon == 2 * TypingExpiry

NextTyping ==
  \/ \E s \in TypingSockets : Connect(s)
  \/ \E s \in TypingSockets : JoinRoom(s, "r1", SyncIdentity[s])
  \/ \E s \in TypingSockets, u \in TypingUsers : Typing(s, "r1", u, TypingHorizon)
  \/ \E s \in TypingSockets, u \in TypingUsers : StopTyping(s, "r1", u)
  \/ \E s \in TypingSockets, u \in TypingUsers : TypingTimeout(s, "r1", u)
  \/ Tick(TypingStep, TypingHorizon)

SpecTyping == Init /\ [][NextTyping]_vars

\* this step handles event op; its room and identity are those of last'
SignalStep(op) == Handled /\ last'.op = op

\* the connections that hold a pending expiry timer for (r, u)
TimerHolders(r, u) == {s \in Sockets : Has(typingTimeouts[s], Key(r, u))}

\* C13: a typing event adds the identity to the room's typing set; it
\* broadcasts the typing set to the room at once only when the identity was
\* not in the set, and emits nothing when it already was.
C13_TypingBroadcastOnChange ==
  [][ SignalStep("typing") =>
        LET r == last'.roomId
            u == last'.username
        IN /\ Has(typingUsers', r)
           /\ typingUsers'[r] = TypingSet(r) \cup {u}
           /\ out' = IF u \in TypingSet(r) THEN <<>>
                     ELSE << [to |-> InRoom(r), ev |-> "user-typing",
                              data |-> TypingSet(r) \cup {u}] >> ]_vars

\* an identity that is typing is reported typing again, over another
\* connection than the one that holds its timer, in a room with listeners
C13_Witness ==
  /\ last.op = "typing"
  /\ ~last.applied
  /\ out = <<>>
  /\ last.username \in TypingSet(last.roomId)
  /\ InRoom(last.roomId) # {}
  /\ Cardinality(TimerHolders(last.roomId, last.username)) = 2

\* C14: a stop-typing event for an identity that is in the room's typing
\* set removes it, leaves no expiry timer pending for it and broadcasts the
\* updated typing set, which does not contain the identity.
C14_StopTypingCancels ==
  [][ (SignalStep("stop-typing") /\ last'.username \in TypingSet(last'.roomId)) =>
        LET r == last'.roomId
            u == last'.username
        IN /\ Has(typingUsers', r)
           /\ u \notin typingUsers'[r]
           /\ \A s \in Sockets : ~Has(typingTimeouts'[s], Key(r, u))
           /\ out' = << [to |-> InRoom(r), ev |-> "user-typing",
                         data |-> TypingSet(r) \ {u}] >> ]_vars

\* C16: auto-expiry never removes an identity from the typing set earlier
\* than 2000 ms after the most recent typing event for that room and
\* identity, whichever connection sent it.
C16_ExpiryRestarts ==
  [][ (SignalStep("typing-timeout")
         /\ last'.username \in TypingSet(last'.roomId)
         /\ last'.username \notin typingUsers'[last'.roomId]) =>
        now >= typed[<<last'.roomId, last'.username>>].at + TypingExpiry ]_vars

\* C17: for every timer key at most one timer is pending at any time.  The
\* keyed timers of this server are the typing-expiry timers (its code-update
\* handler throttles without a timer).
C17_OneTimerPerKey ==
  \A s1, s2 \in Sockets :
    \A k \in DOMAIN typingTimeouts[s1] \cap DOMAIN typingTimeouts[s2] : s1 = s2

(***************************************************************************)
(* Expiry of the typing status of one identity, reported over two          *)
(* connections while a third party listens; the clock and the timers are   *)
(* fair: time passes and a timer that is due fires.                        *)
(***************************************************************************)
NextExpiry ==
  \/ \E s \in TypingSockets : Connect(s)
  \/ JoinRoom("s2", "r1", "B")
  \/ \E s \in TypingSockets : Typing(s, "r1", "A", TypingHorizon)
  \/ StopTyping("s1", "r1", "A")
  \/ \E s \in TypingSockets : TypingTimeout(s, "r1", "A")
  \/ Tick(TypingStep, TypingHorizon)

SpecExpiry ==
  /\ Init
  /\ [][NextExpiry]_vars
  /\ WF_vars(Tick(TypingStep, TypingHorizon))
  /\ WF_vars(\E s \in TypingSockets : TypingTimeout(s, "r1", "A"))

\* the number of typing and stop-typing events handled for (r, u)
SignalCount(r, u) == IF Has(typed, <<r, u>>) THEN typed[<<r, u>>].n ELSE 0

\* the latest event handled is a typing event for (r, u), the n-th signal
\* for that identity
TypingSignal(r, u, n) ==
  /\ last.op = "typing" /\ last.roomId = r /\ last.username = u
  /\ SignalCount(r, u) = n

\* a timer has just removed u from the typing set of r and broadcast the set
ExpiredNow(r, u) ==
  /\ last.op = "typing-timeout" /\ last.roomId = r /\ last.username = u
  /\ u \notin TypingSet(r)
  /\ Emitted("user-typing", TypingSet(r))

LedgerSockets == {"s1", "s2"}
\* contents written and committed: the empty buffer and a non-empty one
LedgerCodes == {"", "X"}
\* the commits made: content, language and the value that
\* Math.random().toString(36).substring(2, 5) takes for the commit
CommitInputs == {<<"X", "js", "k1">>, <<"", "js", "k1">>, <<"X", "py", "k2">>}
LedgerHorizon == DuplicateWindow

\* the commit ids a client can ask to restore: the ids it was sent and one
\* that no commit bears
UnknownHash == <<0, "k0">>
HashInputs == {Log("r1")[i].commitHash : i \in 1..Len(Log("r1"))} \cup {UnknownHash}

NextLedger ==
  \/ \E s \in LedgerSockets : Connect(s)
  \/ \E s \in LedgerSockets : JoinRoom(s, "r1", SyncIdentity[s])
  \/ \E c \in LedgerCodes : CodeUpdate("s1", "r1", c, "js")
  \/ \E l \in Languages : LanguageUpdate("s2", "r1", l)
  \/ \E i \in CommitInputs : CommitCode("s1", "r1", i[1], i[2], "m1", i[3])
  \/ \E h \in HashInputs : RestoreCode("s2", "r1", h)
  \/ Tick(DuplicateWindow, LedgerHorizon)

SpecLedger == Init /\ [][NextLedger]_vars

\* the language keys of the code map of room r in table tbl
LanguageKeys(tbl, r) == IF Has(tbl, r) THEN DOMAIN tbl[r] ELSE {}

\* C11: a language-update read of (room, language) returns the content most
\* recently written to that buffer, whatever the content, the empty string
\* included, and the placeholder only when the buffer has not been written.
C11_ReadReturnsWritten ==
  last.op = "language-update" =>
    LET r == last.roomId
        l == last.language
    IN out = << [to |-> {last.sock}, ev |-> "language-update",
                 data |-> [language |-> l,
                           code |-> IF l \in LanguageKeys(roomCode, r)
                                    THEN roomCode[r][l] ELSE Placeholder]] >>

\* C12: a language key enters a room's code map only in the step of an
\* accepted code-update for that language or of a restore of a commit of
\* that room in that language, so that every key of every reachable state
\* has such an origin; a language-update read adds no key and changes no
\* room state.
C12_KeysWrittenOrRestored ==
  [][ /\ \A r \in RoomIds :
           \A l \in LanguageKeys(roomCode', r) \ LanguageKeys(roomCode, r) :
             /\ Handled
             /\ last'.roomId = r /\ last'.language = l /\ last'.applied
             /\ \/ last'.op = "code-update"
                \/ /\ last'.op = "restore-code"
                   /\ \E i \in 1..Len(Log(r)) :
                        Log(r)[i].language = l /\ Log(r)[i].code = last'.code
      /\ (Handled /\ last'.op = "language-update") =>
           UNCHANGED <<serverTables, saveTimeout>> ]_vars

\* a read of a language that was never written returns the placeholder and
\* adds no key, in a room whose other buffer was written by a restore alone
C12_Witness ==
  /\ last.op = "language-update"
  /\ last.code = Placeholder
  /\ last.language \notin LanguageKeys(roomCode, last.roomId)
  /\ LanguageKeys(roomCode, last.roomId) # {}
  /\ \A l \in LanguageKeys(roomCode, last.roomId) : ~Has(accepted, <<last.roomId, l>>)

\* C18: a commit-code that is not suppressed as a duplicate appends one
\* entry with the given language, content and message at the tail of the
\* room's log, the earlier entries keeping their order, and broadcasts to
\* the whole room a commit-history list holding, per log entry and in log
\* order, the id and the message, without code content.
C18_CommitAppendsAndBroadcasts ==
  [][ (Handled /\ last'.op = "commit-code" /\ last'.applied) =>
        LET r == last'.roomId
            old == Log(r)
            new == commitHistory'[r]
            n == Len(new)
        IN /\ n >= 1
           /\ new[n].language = last'.language
           /\ new[n].code = last'.code
           /\ new[n].commitMessage = last'.message
           /\ SubSeq(new, 1, n - 1) = SliceLast(old, n - 1)
           /\ Len(old) <= CommitLimit => new = Append(old, new[n])
           /\ out' = << [to |-> InRoom(r), ev |-> "commit-history",
                         data |-> [i \in 1..n |->
                                     <<new[i].commitHash, new[i].commitMessage>>]] >> ]_vars

\* a second commit has been appended and its two summaries broadcast to
\* the two connections in the room
C18_Witness ==
  /\ last.op = "commit-code"
  /\ last.applied
  /\ Len(Log(last.roomId)) = 2
  /\ Len(out) = 1
  /\ Len(out[1].data) = 2
  /\ Cardinality(out[1].to) = 2

\* C19: no two entries of the commit logs carry the same commit id.
C19_UniqueCommitIds ==
  \A r1, r2 \in DOMAIN commitHistory :
    \A i \in 1..Len(commitHistory[r1]), j \in 1..Len(commitHistory[r2]) :
      commitHistory[r1][i].commitHash = commitHistory[r2][j].commitHash =>
        (r1 = r2 /\ i = j)

\* the log of room r after the step, empty when the room has none
LogAfter(r) == IF Has(commitHistory', r) THEN commitHistory'[r] ELSE <<>>

LedgerStep == DuplicateWindow \div 2

NextRestore ==
  \/ \E s \in LedgerSockets : Connect(s)
  \/ \E s \in LedgerSockets : JoinRoom(s, "r1", SyncIdentity[s])
  \/ \E c \in LedgerCodes : CodeUpdate("s1", "r1", c, "js")
  \/ \E i \in CommitInputs : CommitCode("s1", "r1", i[1], i[2], "m1", i[3])
  \/ \E h \in HashInputs : RestoreCode("s2", "r1", h)
  \/ RestoreCode("s2", "r2", UnknownHash)
  \/ Tick(LedgerStep, LedgerHorizon)

SpecRestore == Init /\ [][NextRestore]_vars

\* the entries of the log of room r that carry commit id h
Bearing(r, h) == {i \in 1..Len(Log(r)) : Log(r)[i].commitHash = h}

\* this step handles a restore-code
RestoreStep == Handled /\ last'.op = "restore-code"

\* C21: when a commit that is in the room's log is restored by its commit
\* id, whatever code-updates came in between, the room's buffer for the
\* commit's language equals the commit's content and a code-update carrying
\* that content and language is broadcast to the room.
C21_RestoreRoundTrip ==
  [][ RestoreStep =>
        \A i \in Bearing(last'.roomId, last'.commitHash) :
          LET r == last'.roomId
              c == Log(r)[i]
          IN /\ Lookup(roomCode', r, c.language) = c.code
             /\ \E k \in 1..Len(out') :
                  out'[k] = [to |-> InRoom(r), ev |-> "code-update",
                             data |-> [code |-> c.code, language |-> c.language]] ]_vars

\* C22: a restore-code whose commit id no entry of the room's log carries
\* (unknown id, or a room without log) changes no room state, schedules no
\* persistence and emits nothing.
C22_UnknownRestoreIsSilent ==
  [][ (RestoreStep /\ Bearing(last'.roomId, last'.commitHash) = {}) =>
        /\ UNCHANGED <<serverTables, saveTimeout>>
        /\ out' = <<>> ]_vars

\* an unknown id has been asked of a room that holds a commit and code,
\* with listeners in the room
C22_Witness ==
  /\ last.op = "restore-code"
  /\ ~last.applied
  /\ last.commitHash = UnknownHash
  /\ Log(last.roomId) # <<>>
  /\ LanguageKeys(roomCode, last.roomId) # {}
  /\ InRoom(last.roomId) # {}
  /\ out = <<>>

\* this step handles a commit-code
CommitStep == Handled /\ last'.op = "commit-code"

\* an entry of the log of room r with language l and content c is less than
\* five minutes old
RecentTwin(r, l, c) ==
  \E i \in 1..Len(Log(r)) :
    /\ Log(r)[i].language = l
    /\ Log(r)[i].code = c
    /\ now - Log(r)[i].timestamp < DuplicateWindow

\* C23: a commit-code whose language and content equal those of an entry of
\* the room's log created less than five minutes earlier leaves the log
\* unchanged and emits no commit-history; any other commit-code appends its
\* entry.
C23_DuplicateSuppressed ==
  [][ CommitStep =>
        LET r == last'.roomId
        IN IF RecentTwin(r, last'.language, last'.code)
           THEN /\ LogAfter(r) = Log(r)
                /\ out' = <<>>
           ELSE /\ Len(LogAfter(r)) = Len(Log(r)) + 1
                /\ SubSeq(LogAfter(r), 1, Len(Log(r))) = Log(r)
                /\ LogAfter(r)[Len(LogAfter(r))].code = last'.code
                /\ LogAfter(r)[Len(LogAfter(r))].language = last'.language ]_vars

\* the same content has been committed again half a window after its first
\* commit and was suppressed
C23_Witness ==
  /\ last.op = "commit-code"
  /\ ~last.applied
  /\ out = <<>>
  /\ Len(Log(last.roomId)) = 1
  /\ now - Log(last.roomId)[1].timestamp = LedgerStep

(***************************************************************************)
(* The chat log of one room under a long run of messages, numbered in the  *)
(* order in which they arrive.                                             *)
(***************************************************************************)
ChatSockets == {"s1", "s2"}

\* the number of messages sent to room r so far: the number of the latest
Posted(r) == IF Chat(r) = <<>> THEN 0 ELSE Chat(r)[Len(Chat(r))].message

NextChat ==
  \/ \E s \in ChatSockets : Connect(s)
  \/ \E s \in ChatSockets : JoinRoom(s, "r1", SyncIdentity[s])
  \/ /\ Posted("r1") < MaxPosts
     /\ Post("s1", "r1", SyncIdentity["s1"], Posted("r1") + 1)

SpecChat == Init /\ [][NextChat]_vars

\* C24: after any sequence of send-message events a room's chat log holds
\* at most 100 entries, the most recent messages in arrival order; after 150
\* messages it holds messages 51 to 150.
C24_ChatBounded ==
  \A r \in DOMAIN chatHistory :
    LET n == Len(chatHistory[r])
        total == Posted(r)
    IN /\ n <= ChatLimit
       /\ n = IF total < ChatLimit THEN total ELSE ChatLimit
       /\ \A i \in 1..n : chatHistory[r][i].message = total - n + i

(***************************************************************************)
(* Share links: two connections, one creating links and one loading them,  *)
(* over a week and a half.                                                 *)
(***************************************************************************)
ShareSockets == {"s1", "s2"}
\* the ids Math.random() may yield
ShareIds == {"h1", "h2"}
ShareStep == ONE_WEEK \div 2
ShareHorizon == 3 * ShareStep

NextShare ==
  \/ \E s \in ShareSockets : Connect(s)
  \/ \E c \in Codes, h \in ShareIds : GenerateShareableLink("s1", c, h)
  \/ \E h \in ShareIds : LoadSharedCode("s2", h)
  \/ Cleanup
  \/ Tick(ShareStep, ShareHorizon)

SpecShare == Init /\ [][NextShare]_vars

ShareOp(op) == Handled /\ last'.op = op

\* C25: a share id returned for content C loads exactly C until the sweep
\* purges it; the sweep purges only links older than one week; a purged or
\* unknown id yields shared-code-error and never content.
C25_ShareLinkLoadsItsContent ==
  [][ /\ \A h \in DOMAIN sharedCode :
           \/ Has(sharedCode', h) /\ sharedCode'[h].code = sharedCode[h].code
           \/ /\ ShareOp("cleanup")
              /\ ~Has(sharedCode', h)
              /\ now - sharedCode[h].createdAt > ONE_WEEK
      /\ ShareOp("generate-shareable-link") =>
           /\ out' = << Emit({last'.sock}, "shareable-link", ShareUrl(last'.shareId)) >>
           /\ Has(sharedCode', last'.shareId)
           /\ sharedCode'[last'.shareId].code = last'.code
      /\ ShareOp("load-shared-code") =>
           out' = IF Has(sharedCode, last'.shareId)
                  THEN << Emit({last'.sock}, "shared-code-loaded",
                               sharedCode[last'.shareId].code) >>
                  ELSE << Emit({last'.sock}, "shared-code-error",
                               "Shared code not found!") >>
    ]_vars

(***************************************************************************)
(* The handler that awaits the write before it emits.                      *)
(***************************************************************************)
AwaitSockets == {"s1", "s2"}

NextAwait ==
  \/ \E s \in AwaitSockets : Connect(s)
  \/ \E s \in AwaitSockets, r \in RoomIds : JoinRoomAwait(s, r, SyncIdentity[s])
  \/ \E i \in 1..MaxPending, o \in WriteOutcomes : WriteSettled(i, o)

SpecAwait == Init /\ [][NextAwait]_vars

\* the events that change a room
Mutations ==
  {"join-room", "code-update", "send-message", "commit-code", "restore-code",
   "leave-room", "disconnect"}

\* C26: for every mutating event the change of the in-memory state and its
\* broadcast happen without waiting for the durable write: the handler that
\* changes the tables emits in the same step, and that step writes nothing.
C26_BroadcastDoesNotWait ==
  [][ Handled /\ last'.op \in Mutations /\ serverTables' # serverTables =>
        out' # <<>> /\ disk' = disk ]_vars

(***************************************************************************)
(* The debounced write and the restart: one room, its members, code, chat  *)
(* and commits, a save window and a half.                                  *)
(***************************************************************************)
StoreSockets == {"s1", "s2"}
StoreStep == SAVE_DELAY \div 2
StoreHorizon == 3 * StoreStep

NextStore ==
  \/ \E s \in StoreSockets : Connect(s)
  \/ \E s \in StoreSockets : JoinRoom(s, "r1", SyncIdentity[s])
  \/ CodeUpdate("s1", "r1", "X", "js")
  \/ SendMessage("s1", "r1", "A", "hi")
  \/ CommitCode("s1", "r1", "X", "js", "m1", "k1")
  \/ \E o \in WriteOutcomes : SaveFire(o)
  \/ Restart
  \/ Tick(StoreStep, StoreHorizon)

SpecStore == Init /\ [][NextStore]_vars

WriteStep == Handled /\ last'.op = "save"

\* C27: mutations within one save-delay window produce exactly one write,
\* which holds the state after the last of them, and at most one save timer
\* is pending at any time: a handler leaves the timer alone or replaces it by
\* one timer a full delay ahead, a write uses up the only timer once it is
\* due and stores the tables as they are, and with no timer pending and no
\* write lost the file holds the tables.
C27_OneWritePerWindow ==
  [][ /\ Cardinality(saveTimeout') <= 1
      /\ Handled /\ ~WriteStep /\ last'.op # "restart" =>
           saveTimeout' = saveTimeout \/ saveTimeout' = {now + SAVE_DELAY}
      /\ WriteStep =>
           /\ \E t \in saveTimeout : now >= t
           /\ saveTimeout' = {}
           /\ last'.applied => disk'.state = "written" /\ disk'.data = Snapshot
      /\ saveTimeout' = {} /\ failed' = 0 /\ disk'.state = "written" =>
           /\ disk'.data.rooms = rooms'
           /\ disk'.data.hosts = hosts'
           /\ disk'.data.roomCode = roomCode'
           /\ disk'.data.commitHistory = commitHistory'
           /\ disk'.data.chatHistory = chatHistory'
    ]_vars

\* a write has just stored a chat message and a later commit of one window
C27_Witness ==
  /\ last.op = "save" /\ last.applied
  /\ Chat("r1") # <<>> /\ Log("r1") # <<>>
  /\ Chat("r1")[1].timestamp < Log("r1")[1].timestamp
  /\ Log("r1")[1].timestamp - Chat("r1")[1].timestamp < SAVE_DELAY
  /\ now = Log("r1")[1].timestamp + SAVE_DELAY
  /\ disk.data.chatHistory = chatHistory /\ disk.data.commitHistory = commitHistory

\* C30: flushing the state to data.json and reloading it as on process start
\* reproduces members, host, per-language code, commit log and chat log of
\* every room.
C30_ReloadReproducesRooms ==
  [][ Handled /\ last'.op = "restart" /\ last.op = "save" /\ last.applied =>
        /\ rooms' = rooms
        /\ hosts' = hosts
        /\ roomCode' = roomCode
        /\ commitHistory' = commitHistory
        /\ chatHistory' = chatHistory ]_vars

\* a restart right after a write, of a room with members, code, a commit and
\* a chat message
C30_Witness ==
  /\ last.op = "restart" /\ last.applied
  /\ Has(rooms, "r1") /\ Len(rooms["r1"]) = 2
  /\ Has(roomCode, "r1") /\ Has(roomCode["r1"], "js")
  /\ Log("r1") # <<>>
  /\ Chat("r1") # <<>>

(***************************************************************************)
(* A run without end: one client keeps joining, time passes, the sweep    *)
(* runs every hour, and a save timer that is due again and again fires.    *)
(***************************************************************************)
StarveStep == SAVE_DELAY \div 2

NextStarve ==
  \/ Connect("s1")
  \/ JoinRoom("s1", "r1", "A")
  \/ SaveFire("written")
  \/ Cleanup
  \/ Elapse(StarveStep)

SpecStarve ==
  /\ Init /\ [][NextStarve]_vars
  /\ WF_vars(Elapse(StarveStep))
  /\ SF_vars(SaveFire("written"))
  /\ WF_vars(Cleanup)

\* C28: every mutation that schedules persistence is eventually followed by
\* a durable write whose contents include it, for every schedule of later
\* events.
C28_EventuallyWritten ==
  (saveTimeout # {}) ~> (last.op = "save" /\ last.applied)

(***************************************************************************)
(* Writes that fail: one client, the hourly sweep, and the clock moving    *)
(* from one deadline to the next.  A write fails only while the sweep      *)
(* after it and the write that sweep schedules are within the horizon.     *)
(***************************************************************************)
RetryHorizon == (MaxFailures + 1) * SweepInterval + 2 * SAVE_DELAY

\* the earliest pending deadline
NextDue ==
  CHOOSE t \in saveTimeout \cup {nextSweep} :
    \A u \in saveTimeout \cup {nextSweep} : t <= u

Advance == NextDue > now /\ Tick(NextDue - now, RetryHorizon)

RetryWrite ==
  \E o \in WriteOutcomes :
    /\ o # "written" => now + SweepInterval + SAVE_DELAY <= StartTime + RetryHorizon
    /\ SaveFire(o)

NextRetry ==
  \/ Connect("s1")
  \/ SendMessage("s1", "r1", "A", "hi")
  \/ CommitCode("s1", "r1", "X", "js", "m1", "k1")
  \/ RetryWrite
  \/ Cleanup
  \/ Advance

SpecRetry ==
  /\ Init /\ [][NextRetry]_vars
  /\ WF_vars(Advance)
  /\ WF_vars(RetryWrite)
  /\ WF_vars(Cleanup)

FailedWrite == last.op = "save" /\ ~last.applied
ClientMutated == last.op \in Mutations /\ last.applied

\* C29: a write that fails leaves the tables and the emits alone, and the
\* state it failed to store reaches the file later without any further
\* client mutation.
C29_FailedWriteIsRetried ==
  /\ [][ WriteStep => UNCHANGED <<serverTables, sharedCode, inbox>> /\ out' = <<>> ]_vars
  /\ FailedWrite ~> ((last.op = "save" /\ last.applied) \/ ClientMutated)

\* a write has failed, and the write the sweep scheduled has stored the
\* chat log
C29_Witness ==
  /\ failed > 0
  /\ last.op = "save" /\ last.applied
  /\ now = nextSweep - SweepInterval + SAVE_DELAY
  /\ Chat("r1") # <<>>
  /\ disk.state = "written" /\ disk.data.chatHistory = chatHistory

(***************************************************************************)
(* The commit log of one room under a long run of commits, one every five  *)
(* minutes so that none is a duplicate of another.                         *)
(***************************************************************************)
CommitsHorizon == (CommitLimit + 2) * DuplicateWindow

\* a commit was entered at the present instant
CommittedNow(r) == Log(r) # <<>> /\ Log(r)[Len(Log(r))].timestamp = now

NextCommits ==
  \/ \E s \in LedgerSockets : Connect(s)
  \/ \E s \in LedgerSockets : Commit(s, "r1", "X", "js", "m1", "k1")
  \/ CommittedNow("r1") /\ Tick(DuplicateWindow, CommitsHorizon)

SpecCommits == Init /\ [][NextCommits]_vars

\* C39: after any sequence of commit-code events a room's commit log holds
\* at most 50 entries; the entries evicted are the oldest ones and the order
\* of the others is kept.
C39_CommitLogBounded ==
  [][ CommitStep /\ last'.applied =>
        LET r == last'.roomId
            n == Len(LogAfter(r))
        IN /\ n <= CommitLimit
           /\ \E k \in 0..Len(Log(r)) :
                LogAfter(r) = Append(SubSeq(Log(r), k + 1, Len(Log(r))), LogAfter(r)[n])
    ]_vars

(***************************************************************************)
(* Connections that come and go: three connections, two of them with the   *)
(* same identity, two rooms, joins and disconnects; nobody leaves a room  *)
(* other than by disconnecting.                                            *)
(***************************************************************************)
LeaveIdentity == [s \in Sockets |-> IF s = "s2" THEN "B" ELSE "A"]

NextLeave ==
  \/ \E s \in Sockets : Connect(s)
  \/ \E s \in Sockets, r \in RoomIds : JoinRoom(s, r, LeaveIdentity[s])
  \/ \E s \in Sockets : Disconnect(s)

SpecLeave == Init /\ [][NextLeave]_vars

\* the connections other than s that are live after the step and joined r as u
LiveAs(s, r, u) ==
  {x \in connected' \ {s} : r \in subs[x] /\ LeaveIdentity[x] = u}

\* the members of r after the step
MembersAfter(r) == IF Has(rooms', r) THEN Range(rooms'[r]) ELSE {}
TypingAfter(r) == IF Has(typingUsers', r) THEN typingUsers'[r] ELSE {}

\* C37: after a disconnect the connection's identity is in the member list
\* and typing set of no room it joined (unless another live connection uses
\* the identity there), and the identity of a connection that is still
\* connected is removed from no room by it.
C37_DisconnectRemovesOwnIdentity ==
  [][ Handled /\ last'.op = "disconnect" =>
        LET s == last'.sock IN
        /\ \A r \in subs[s] :
             LiveAs(s, r, LeaveIdentity[s]) = {} =>
               /\ LeaveIdentity[s] \notin MembersAfter(r)
               /\ LeaveIdentity[s] \notin TypingAfter(r)
        /\ \A r \in DOMAIN rooms : \A u \in Range(rooms[r]) \ MembersAfter(r) :
             LiveAs(s, r, u) = {}
    ]_vars

(***************************************************************************)
(* The sweep and the age of a room.                                        *)
(***************************************************************************)
\* the instants at which room r is known to have been written: its chat
\* messages, its commits and its code-updates
Instants(r) ==
  {Chat(r)[i].timestamp : i \in 1..Len(Chat(r))}
    \cup {Log(r)[i].timestamp : i \in 1..Len(Log(r))}
    \cup {accepted[k].time : k \in {x \in DOMAIN accepted : x[1] = r}}

\* C36: the sweep deletes a room only when it has no members and its most
\* recent activity is more than one week old.  Stated for the recorded chat
\* messages, commits and code-updates, which are part of that activity, and
\* for an age of at least one week, which more than one week implies.
C36_SweepsOnlyOldEmptyRooms ==
  [][ Handled /\ last'.op = "cleanup" =>
        \A r \in DOMAIN rooms \ DOMAIN rooms' :
          /\ rooms[r] = <<>>
          /\ \A t \in Instants(r) : now - t >= ONE_WEEK ]_vars

(***************************************************************************)
(* Content written to a room key before anybody has joined it.             *)
(***************************************************************************)
\* the emits of this step include event ev with payload data
EmitsNow(ev, data) == \E i \in 1..Len(out') : out'[i].ev = ev /\ out'[i].data = data

\* C35: what a code-update, send-message or commit-code wrote to a room key
\* nobody had joined stays part of the room's state and is delivered in the
\* snapshot of the first identity that joins the room (the handlers do write
\* for such a key, so the policy of changing nothing is not the one taken).
C35_EarlyContentSurvivesJoin ==
  [][ Handled /\ last'.op = "join-room" /\ ~Has(rooms, last'.roomId) =>
        LET r == last'.roomId IN
        /\ Has(roomCode, r) =>
             roomCode'[r] = roomCode[r] /\ EmitsNow("sync-all-code", roomCode[r])
        /\ Has(chatHistory, r) =>
             chatHistory'[r] = chatHistory[r] /\ EmitsNow("chat-history", chatHistory[r])
        /\ Has(commitHistory, r) =>
             /\ commitHistory'[r] = commitHistory[r]
             /\ EmitsNow("commit-history", CommitSummaries(commitHistory[r]))
    ]_vars

(***************************************************************************)
(* Events whose payload lacks a field: destructuring yields undefined for  *)
(* it and the handler goes on with that value.                             *)
(***************************************************************************)
MalformedSockets == {"s1", "s2"}
NameInputs == {"A", Undefined}
LanguageInputs == {"js", Undefined}

NextMalformed ==
  \/ \E s \in MalformedSockets : Connect(s)
  \/ \E s \in MalformedSockets, u \in NameInputs : JoinRoom(s, "r1", u)
  \/ \E l \in LanguageInputs : CodeUpdate("s1", "r1", "X", l)

SpecMalformed == Init /\ [][NextMalformed]_vars

\* the event handled by this step lacks a required field
Malformed ==
  \/ last'.op = "join-room" /\ last'.username = Undefined
  \/ last'.op = "code-update" /\ last'.language = Undefined

\* C34: an event with a missing required payload field is a no-op: no room
\* state changes, nothing is broadcast and no persistence is scheduled.
C34_MalformedIsNoOp ==
  [][ Handled /\ Malformed =>
        /\ UNCHANGED <<serverTables, socketRooms, subs, saveTimeout>>
        /\ out' = <<>> ]_vars

(***************************************************************************)
(* Two rooms and the one save timer: one connection joins and edits both   *)
(* rooms.                                                                  *)
(***************************************************************************)
NextIsolation ==
  \/ Connect("s1")
  \/ \E r \in RoomIds : JoinRoom("s1", r, "A")
  \/ \E r \in RoomIds : CodeUpdate("s1", r, "X", "js")
  \/ SaveFire("written")
  \/ Tick(StoreStep, StoreHorizon)

SpecIsolation == Init /\ [][NextIsolation]_vars

\* what table tbl holds for room r
Entry(tbl, r) == IF Has(tbl, r) THEN <<tbl[r]>> ELSE <<>>

\* members, host, code, chat and commit log of room r in the tables given
RoomOf(r, m, h, c, chat, log) ==
  <<Entry(m, r), Entry(h, r), Entry(c, r), Entry(chat, r), Entry(log, r)>>

\* room r holds changes that data.json does not hold
Dirty(r) ==
  RoomOf(r, rooms, hosts, roomCode, chatHistory, commitHistory)
    # RoomOf(r, LoadData.rooms, LoadData.hosts, LoadData.roomCode,
             LoadData.chatHistory, LoadData.commitHistory)

\* C33: an event addressed to room R changes nothing of another room R' and
\* does not postpone the persistence of what was written to R': the pending
\* write of a changed R' stays due when it was.
C33_RoomsAreIsolated ==
  [][ Handled /\ last'.roomId \in RoomIds =>
        \A r \in RoomIds \ {last'.roomId} :
          /\ RoomOf(r, rooms', hosts', roomCode', chatHistory', commitHistory')
               = RoomOf(r, rooms, hosts, roomCode, chatHistory, commitHistory)
          /\ Dirty(r) /\ saveTimeout # {} => saveTimeout' = saveTimeout
    ]_vars

(***************************************************************************)
(* What the editors show once everything in flight has been delivered.     *)
(***************************************************************************)
\* nothing is in flight to a followed connection
Quiet == \A s \in tracked \cap connected : inbox[s] = <<>>

\* the content the editor of connection s shows for language l
Shown(s, l) == IF Has(view[s], l) THEN view[s][l] ELSE Null

\* the followed connections that are in room r
Members(r) == tracked \cap InRoom(r)

\* the server holds a buffer for (r, l)
Buffered(r, l) == Has(roomCode, r) /\ Has(roomCode[r], l) /\ Has(accepted, <<r, l>>)

\* every followed connection has sent at most one code-update
OneEach == \A s \in tracked : edits[s] <= 1

\* room r has two members or more and each has sent exactly one code-update
TwoSenders(r) ==
  /\ Cardinality(Members(r)) >= 2
  /\ \A s \in Members(r) : edits[s] = 1

\* C10 as the specification states it: when members each send one code-update for the same
\* language concurrently, then once every message has been delivered the
\* server's buffer and the buffer shown to every member equal the content of
\* the update the server applied last.
C10_AllBuffersConverge ==
  \A r \in RoomIds, l \in Languages :
    (Buffered(r, l) /\ Quiet /\ OneEach /\ TwoSenders(r)) =>
      /\ roomCode[r][l] = accepted[<<r, l>>].code
      /\ \A s \in Members(r) : Shown(s, l) = accepted[<<r, l>>].code

\* C10 as amended: the server's buffer equals the content of the update it
\* applied last; once every message has been delivered so does the buffer
\* shown to every member that sent no update, and, when the members sent one
\* update each, the buffer shown to every member other than the sender of the
\* update applied last.
C10_LastAppliedWins ==
  \A r \in RoomIds, l \in Languages :
    Buffered(r, l) =>
      /\ roomCode[r][l] = accepted[<<r, l>>].code
      /\ Quiet =>
           \A s \in Members(r) :
             (edits[s] = 0 \/ (OneEach /\ s # accepted[<<r, l>>].sock)) =>
               Shown(s, l) = accepted[<<r, l>>].code

\* two members sent one update each; everything is delivered; the sender of
\* the update applied first shows the content applied last, the sender of the
\* update applied last shows the other content
C10_Witness ==
  /\ Quiet
  /\ Buffered("r1", "js")
  /\ Members("r1") = {"s1", "s2"}
  /\ edits["s1"] = 1 /\ edits["s2"] = 1
  /\ \E s \in Members("r1") :
       /\ s # accepted[<<"r1", "js">>].sock
       /\ Shown(s, "js") = roomCode["r1"]["js"]
  /\ Shown(accepted[<<"r1", "js">>].sock, "js") # roomCode["r1"]["js"]

(***************************************************************************)
(* The memory-only server: a member that only listens, a member that       *)
(* edits, commits and restores one buffer of one room.                     *)
(***************************************************************************)
OrderStep == debounceTime \div 2
OrderHorizon == 3 * OrderStep

\* the in-flight queue of every followed connection has room for an event
InboxOpen == \A s \in tracked : Len(inbox[s]) < MaxInbox

InitOrder == InitServer /\ InitClients({"s2"})

NextOrder ==
  \/ \E s \in {"s1", "s2"} : Connect(s)
  \/ InboxOpen /\ JoinRoomMemory("s2", "r1", "B")
  \/ CodeUpdateDelayed("s1", "r1", "X", "js")
  \/ CommitCodeMemory("s1", "r1", "Y", "js", "m1", "k1")
  \/ \E h \in HashInputs : InboxOpen /\ RestoreCodeMemory("s1", "r1", h)
  \/ InboxOpen /\ CodeUpdateTimeout("r1")
  \/ Deliver("s2")
  \/ Tick(OrderStep, OrderHorizon)

SpecOrder == InitOrder /\ [][NextOrder]_vars

\* C31: within a room the broadcasts are received in the order in which the
\* mutations were applied: once no broadcast of the room is pending and
\* everything in flight has been delivered, every member shows, for each
\* buffer of the room, the content the server holds.
C31_LastReceivedIsServerContent ==
  \A r \in RoomIds :
    (Quiet /\ ~Has(codeUpdateTimers, r) /\ Has(roomCode, r)) =>
      \A s \in Members(r), l \in DOMAIN roomCode[r] : Shown(s, l) = roomCode[r][l]

(***************************************************************************)
(* The debounced handler: a member that only listens, a member that edits  *)
(* the two buffers of one room.                                            *)
(***************************************************************************)
DebounceStep == DebounceMs \div 2
DebounceHorizon == 3 * DebounceStep

NextDebounce ==
  \/ \E s \in {"s1", "s2"} : Connect(s)
  \/ JoinRoomAwait("s2", "r1", "B")
  \/ \E i \in 1..MaxPending, o \in WriteOutcomes : InboxOpen /\ WriteSettled(i, o)
  \/ \E l \in Languages : CodeUpdateDebounced("s1", "r1", "X", l)
  \/ CodeUpdateDebouncedTimeout("r1")
  \/ \E i \in 1..MaxPending, o \in WriteOutcomes : InboxOpen /\ CodeUpdateSettled(i, o)
  \/ Deliver("s2")
  \/ Tick(DebounceStep, DebounceHorizon)

SpecDebounce == InitOrder /\ [][NextDebounce]_vars

\* no debounce timer is pending, no callback is suspended at its write and
\* nothing is in flight
Settled == codeUpdateTimers = EmptyMap /\ awaiting = <<>> /\ Quiet

\* C40: a pending update for one language is not cancelled by a later
\* code-update for another language of the same room: once the timers have
\* fired, the buffer of every language holds the content sent last for it and
\* the members of the room have received it.
C40_LanguagesDoNotCancelEachOther ==
  \A r \in RoomIds, l \in Languages :
    (Settled /\ Has(accepted, <<r, l>>)) =>
      /\ Has(roomCode, r) /\ Has(roomCode[r], l)
      /\ roomCode[r][l] = accepted[<<r, l>>].code
      /\ \A s \in Members(r) : Shown(s, l) = accepted[<<r, l>>].code

(***************************************************************************)
(* The store-backed server: joins that do not overlap, edits in between.   *)
(***************************************************************************)
ReloadStep == SaveThrottleMs \div 2
ReloadHorizon == 3 * ReloadStep

NextReload ==
  \/ \E s \in {"s1", "s2"} : Connect(s)
  \/ \E s \in {"s1", "s2"} : reading = <<>> /\ JoinRoomRead(s, "r1", SyncIdentity[s])
  \/ JoinRoomLoaded
  \/ CodeUpdateStored("s1", "r1", "X", "js")
  \/ RedisFlush
  \/ Tick(ReloadStep, ReloadHorizon)

SpecReload == Init /\ [][NextReload]_vars

\* a join-room handler resumes with the reply of the store
JoinResumed == Handled /\ last'.op = "join-room resumed"

\* C38: a join-room for a room held in memory does not replace the members,
\* host, code, chat and commit log of the room by the record read from the
\* store: after the join the room is what it was, with the joining identity
\* added to its members.
C38_JoinKeepsMemory ==
  [][ \A r \in DOMAIN rooms :
        (JoinResumed /\ last'.roomId = r) =>
          /\ rooms'[r] = AddMember(rooms[r], last'.username)
          /\ RoomOf(r, rooms, hosts', roomCode', chatHistory', commitHistory')
               = RoomOf(r, rooms, hosts, roomCode, chatHistory, commitHistory)
    ]_vars

(***************************************************************************)
(* The store-backed server: joins that overlap.  A join starts reading     *)
(* when the store holds everything memory holds.                           *)
(***************************************************************************)
NextOverlap ==
  \/ \E s \in {"s1", "s2"} : Connect(s)
  \/ \E s \in {"s1", "s2"} :
       redisThrottle.args = Null /\ JoinRoomRead(s, "r1", SyncIdentity[s])
  \/ JoinRoomLoaded
  \/ RedisFlush
  \/ Tick(ReloadStep, ReloadHorizon)

SpecOverlap == Init /\ [][NextOverlap]_vars

\* C32: join-room events for the same room that overlap while the record is
\* read do not lose each other's effect: once every join has completed, the
\* identity of every connection that joined is in the member list of the
\* room and the room has one host, a member.
C32_OverlappingJoinsBothKept ==
  reading = <<>> =>
    \A r \in RoomIds : \A s \in InRoom(r) :
      /\ Has(rooms, r) /\ SyncIdentity[s] \in Range(rooms[r])
      /\ Has(hosts, r) /\ hosts[r] \in Range(rooms[r])

=============================================================================
